---- MODULE Spec2Model ----
(***************************************************************************)
(* A model of the three "Fiber" reconciliation engines of the repository:  *)
(*   "gemini" : src/mini-react/gemini.html  (synchronous work loop)        *)
(*   "gpt"    : src/mini-react/GPT.html     (idle-callback loop, no diff)  *)
(*   "mini"   : src/unnamed/part_001        (idle-callback loop, diffing)  *)
(* Fibers live in an arena (a sequence of records addressed by index);     *)
(* the host document is a second arena of presentation nodes.  A JS        *)
(* reference is an index, null/undefined is 0.                             *)
(***************************************************************************)
EXTENDS Integers, Sequences, FiniteSets, TLC

VARIABLES
    variant,          \* which of the three engines this behaviour runs
    pc,               \* "idle": between callbacks; "loop": inside workLoop
    shouldYield,      \* workLoop's local flag
    loopAlive,        \* the idle callback is still re-registered
    nextUnitOfWork,   \* global nextUnitOfWork
    currentRoot,      \* global currentRoot
    wipRoot,          \* global wipRoot
    deletions,        \* global deletions (sequence of fiber references)
    fibers,           \* the heap of fiber objects
    dom,              \* the host document: presentation nodes
    error,            \* the exception that escaped the last handler, or NoError
    renders,          \* number of render calls made so far
    processed,        \* fibers handed to performUnitOfWork since the last render call
    commitCalls,      \* the wipRoot of every commitRoot invocation, in order
    commitLog,        \* host mutations issued by the last commitRoot invocation
    domAtRender,      \* the host document as it was at the last render call
    fibersAtRender,   \* the fiber heap as the last render call left it
    lastProps,        \* the props last applied to the node under updateDomProperties
    builtFrom,        \* the arguments of the last createElement call, if any
    built,            \* what that call returned
    library,          \* which useQuery implementation the hooks come from
    retry,            \* the retry option the hooks are given
    now,              \* Date.now()
    queryCache,       \* the global queryCache: the entry of the one cache key, if any
    fetches,          \* every fetchData run that called queryFn, in order
    mountedRef,       \* mountedRef.current of each hook instance
    retryCountRef,    \* retryCountRef.current of each hook instance
    cleanupTimer,     \* useQueryClaude: the cleanupTimer of each hook instance
    call,             \* what the last fetchData call did
    currentState,     \* createStore: currentState
    listeners,        \* createStore: listeners
    handles,          \* createStore: the unsubscribe functions subscribe has returned
    storeLog,         \* createStore: what the last store operation did
    bankInstance,     \* CentralBank.instance
    banks,            \* the CentralBank objects constructed so far
    bankRefs,         \* what each getInstance call was given and returned
    lastRate,         \* the rate of the last setInterestRate call
    topics,           \* EventBus: topics
    busLog,           \* EventBus: what the last bus operation did
    globalWipFiber,   \* part_001: global wipFiber (reconcileChildren's parameter hides it)
    hookIndex,        \* part_001: global hookIndex
    apps              \* the components createApp has been called with, in order

\* the variables of the rendering engine
engineVars == <<variant, pc, shouldYield, loopAlive, nextUnitOfWork, currentRoot, wipRoot,
                deletions, fibers, dom, error, renders, processed, commitCalls, commitLog,
                domAtRender, fibersAtRender, lastProps>>

\* the variables of the element builder taken by itself
builderVars == <<builtFrom, built>>

\* the variables of the useQuery hooks
queryVars == <<library, retry, now, queryCache, fetches, mountedRef, retryCountRef,
               cleanupTimer, call>>

\* the variables of the store, of the CentralBank class and of the EventBus
storeVars == <<currentState, listeners, handles, storeLog>>
bankVars == <<bankInstance, banks, bankRefs, lastRate>>
busVars == <<topics, busLog>>
hookVars == <<globalWipFiber, hookIndex, apps>>

\* the variables outside the rendering engine
others == <<builderVars, queryVars, storeVars, bankVars, busVars, hookVars>>

vars == <<engineVars, others>>

----------------------------------------------------------------------------
(* Bounds of the model *)

MaxKids == 2
MaxRenders == 2
MaxPasses == 3
MaxStack == 6
MaxTime == 2
MaxFetches == 2
MaxCalls == 5
MaxSubs == 2
MaxCount == 1
MaxRefs == 3
MaxListeners == 2

----------------------------------------------------------------------------
(* Program constants *)

\* the staleTime and cacheTime every useQuery hook is given, in clock ticks
StaleTime == 1
CacheTime == 1

PLACEMENT == 1
UPDATE == 2
DELETION == 3
NoTag == 0
Null == 0

Variants == {"gemini", "gpt", "mini"}
Cooperative == {"gpt", "mini"}

TEXT_ELEMENT == "TEXT_ELEMENT"
Undefined == "undefined"
NoError == "none"

EmptyProps == [n \in {} |-> ""]

\* Property names of the model in a fixed enumeration order (Object.keys order).
PropNames == <<"className", "id", "style", "nodeValue", "onClick">>

\* key.startsWith("on")
isEvent(key) == key \in {"onClick"}

\* key !== "children" && !isEvent(key); the children entry is kept apart from attrs
isProperty(key) == ~isEvent(key)

\* name.toLowerCase().substring(2)
eventType(name) == IF name = "onClick" THEN "click" ELSE name

----------------------------------------------------------------------------
(* Inputs: nested createElement calls.  A child argument is either another *)
(* call or a raw primitive; primitives are drawn from strings.             *)

Prim(v) == [kind |-> "prim", value |-> v]
NullChild == [kind |-> "null"]
Call(t, a, args) == [kind |-> "call", type |-> t, attrs |-> a, args |-> args]

RECURSIVE SeqsUpTo(_, _)
SeqsUpTo(n, S) ==
    IF n = 0 THEN {<<>>}
    ELSE LET shorter == SeqsUpTo(n - 1, S)
         IN shorter \cup {Append(s, x) : s \in {t \in shorter : Len(t) = n - 1}, x \in S}

\* what a call may be given as a child: an element with a class, a raw string
ChildCalls == {Call("p", ("className" :> "c"), <<Prim("B")>>), Prim("A")}

\* what render may be given: a div around up to MaxKids children, a bare element,
\* or a div whose first child argument is null (a condition that did not hold)
RootCalls ==
    {Call("div", EmptyProps, ks) : ks \in SeqsUpTo(MaxKids, ChildCalls)}
        \cup {c \in ChildCalls : c.kind = "call"}
        \cup {Call("div", EmptyProps, <<NullChild, Prim("A")>>)}

----------------------------------------------------------------------------
(* Element Builder *)

\* props object of an element: the plain entries and the children entry
Props(attrs, hasChildren, children) ==
    [attrs |-> attrs, hasChildren |-> hasChildren, children |-> children]

\* an element object; "children" is the top-level field only GPT.html sets
Element(type, props, children) ==
    [kind |-> "elem", type |-> type, props |-> props, children |-> children]

createTextElement(text) ==
    Element(TEXT_ELEMENT, Props(("nodeValue" :> text), TRUE, <<>>), <<>>)

\* an array argument, as a call may be given one
ArrayChild(items) == [kind |-> "array", items |-> items]

\* children.flat(): arrays among the arguments are spliced in, one level deep
RECURSIVE Flat(_)
Flat(children) ==
    IF children = <<>> THEN <<>>
    ELSE LET c == Head(children)
         IN (IF c.kind = "array" THEN c.items ELSE <<c>>) \o Flat(Tail(children))

\* String(text) of a string primitive, and of null
String(child) == IF child.kind = "null" THEN "null" ELSE child.value

\* typeof child === "object" && child !== null ? child : createTextElement(child)
WrapChildGemini(child) ==
    IF child.kind \in {"elem", "array"} THEN child ELSE createTextElement(String(child))

\* typeof child === "object" ? child : createTextElement(child)
WrapChildMini(child) ==
    IF child.kind \in {"elem", "array", "null"} THEN child ELSE createTextElement(child.value)

createElementGemini(type, attrs, children) ==
    LET flat == Flat(children)
    IN Element(type, Props(attrs, TRUE, [i \in 1..Len(flat) |-> WrapChildGemini(flat[i])]), <<>>)

createElementMini(type, attrs, children) ==
    Element(type, Props(attrs, TRUE, [i \in 1..Len(children) |-> WrapChildMini(children[i])]), <<>>)

\* { type, props: props || {}, children: children.flat() }
createElementGPT(type, attrs, children) ==
    Element(type, Props(attrs, FALSE, <<>>), Flat(children))

createElement(v, type, attrs, children) ==
    IF v = "gemini" THEN createElementGemini(type, attrs, children)
    ELSE IF v = "mini" THEN createElementMini(type, attrs, children)
    ELSE createElementGPT(type, attrs, children)

\* evaluation of a nested call expression: arguments first, then the call
RECURSIVE Eval(_, _)
Eval(v, c) ==
    IF c.kind \in {"prim", "null"} THEN c
    ELSE IF c.kind = "array" THEN ArrayChild([i \in 1..Len(c.items) |-> Eval(v, c.items[i])])
    ELSE createElement(v, c.type, c.attrs, [i \in 1..Len(c.args) |-> Eval(v, c.args[i])])

\* fiber.props.children || []  (undefined when the props object has no children entry)
PropsChildren(props) == IF props.hasChildren THEN props.children ELSE <<>>

----------------------------------------------------------------------------
(* The host document.  A node is addressed by its index in dom; the        *)
(* container #root / #app is node 1 and exists before any render.          *)

Container == 1

DomNode(tag) ==
    [tag |-> tag, attrs |-> EmptyProps, listeners |-> {}, kids |-> <<>>, parent |-> Null]

\* A machine state threaded through the statements of one handler:
\* the fiber heap, the document, the deletions array, the mutation log,
\* and the exception in flight (statements after a throw do not run).
Machine(f, d, del, log, err) == [f |-> f, d |-> d, del |-> del, log |-> log, err |-> err]

Throw(M, e) == [M EXCEPT !.err = e]

RemoveAt(s, x) == SelectSeq(s, LAMBDA y : y # x)

Without(fn, name) == [n \in (DOMAIN fn) \ {name} |-> fn[n]]

\* document.createElement(tag) / document.createTextNode(""): a detached node
CreateNodeAttached(M, tag) ==
    [M EXCEPT !.d = Append([M.d EXCEPT ![Container].kids = Append(@, Len(M.d) + 1)],
                           [DomNode(tag) EXCEPT !.parent = Container])]
CreateNode(M, tag) ==
    [M EXCEPT !.d = Append(M.d, IF tag = "#text"
                                THEN [DomNode(tag) EXCEPT !.attrs = ("nodeValue" :> "")]
                                ELSE DomNode(tag))]

\* dom.setAttribute(name, value), dom[name] = value
SetAttribute(M, h, name, value) ==
    IF M.err # NoError THEN M
    ELSE [M EXCEPT !.d[h].attrs = (name :> value) @@ M.d[h].attrs,
                   !.log = Append(M.log, [op |-> "set", node |-> h, name |-> name,
                                          value |-> value, parent |-> Null])]

\* dom.removeAttribute(name)
RemoveAttribute(M, h, name) ==
    IF M.err # NoError THEN M
    ELSE [M EXCEPT !.d[h].attrs = Without(M.d[h].attrs, name),
                   !.log = Append(M.log, [op |-> "clear", node |-> h, name |-> name,
                                          value |-> "", parent |-> Null])]

\* dom.addEventListener(type, callback)
AddEventListener(M, h, type, callback) ==
    IF M.err # NoError THEN M
    ELSE [M EXCEPT !.d[h].listeners = M.d[h].listeners \cup {<<type, callback>>},
                   !.log = Append(M.log, [op |-> "bind", node |-> h, name |-> type,
                                          value |-> callback, parent |-> Null])]

\* dom.removeEventListener(type, callback)
RemoveEventListener(M, h, type, callback) ==
    IF M.err # NoError THEN M
    ELSE [M EXCEPT !.d[h].listeners = M.d[h].listeners \ {<<type, callback>>},
                   !.log = Append(M.log, [op |-> "unbind", node |-> h, name |-> type,
                                          value |-> callback, parent |-> Null])]

\* parent.appendChild(child): a child attached elsewhere is moved
AppendChild(M, p, h) ==
    IF M.err # NoError THEN M
    ELSE LET q == M.d[h].parent
             d1 == IF q = Null THEN M.d ELSE [M.d EXCEPT ![q].kids = RemoveAt(M.d[q].kids, h)]
             d2 == [d1 EXCEPT ![p].kids = Append(d1[p].kids, h), ![h].parent = p]
         IN [M EXCEPT !.d = d2,
                      !.log = Append(M.log, [op |-> "attach", node |-> h, name |-> "",
                                             value |-> "", parent |-> p])]

\* parent.removeChild(child): throws NotFoundError unless child is a child of parent
RemoveChild(M, p, h) ==
    IF M.err # NoError THEN M
    ELSE IF M.d[h].parent # p THEN Throw(M, "NotFoundError")
    ELSE [M EXCEPT !.d[p].kids = RemoveAt(M.d[p].kids, h), !.d[h].parent = Null,
                   !.log = Append(M.log, [op |-> "detach", node |-> h, name |-> "",
                                          value |-> "", parent |-> p])]

\* parent.contains(node): node is parent or one of its descendants
RECURSIVE Contains(_, _, _)
Contains(d, p, h) ==
    IF h = Null THEN FALSE
    ELSE IF h = p THEN TRUE
    ELSE Contains(d, p, d[h].parent)

\* the names of a props object, in enumeration order
Keys(attrs) == SelectSeq(PropNames, LAMBDA n : n \in DOMAIN attrs)

\* props[name], undefined when absent
Get(attrs, name) == IF name \in DOMAIN attrs THEN attrs[name] ELSE Undefined

\* the attribute a reflected property is stored under
DomName(name) == IF name = "className" THEN "class" ELSE name

\* dom.nodeValue; null on an element node
NodeValue(d, h) == IF d[h].tag = "#text" THEN d[h].attrs["nodeValue"] ELSE "null"

\* dom.nodeValue = value; without effect on an element node
SetNodeValue(M, h, value) ==
    IF M.err = NoError /\ M.d[h].tag = "#text" THEN SetAttribute(M, h, "nodeValue", value) ELSE M

\* dom[name] = value
SetProperty(M, h, name, value) ==
    IF name = "nodeValue" THEN SetNodeValue(M, h, value)
    ELSE SetAttribute(M, h, DomName(name), value)

----------------------------------------------------------------------------
(* gemini.html: updateDomProperties *)

\* 1. remove or change previous properties
RECURSIVE GeminiRemoveOld(_, _, _, _, _)
GeminiRemoveOld(M, h, prevProps, nextProps, names) ==
    IF names = <<>> THEN M
    ELSE LET name == Head(names)
             isStyle == name = "style"
             isGone == name \notin DOMAIN nextProps
             differs == Get(prevProps, name) # Get(nextProps, name)
             M1 == IF isEvent(name) /\ (isGone \/ differs) THEN M
                   ELSE IF isStyle /\ (isGone \/ differs)
                        THEN IF isGone THEN RemoveAttribute(M, h, "style") ELSE M
                   ELSE IF ~isEvent(name) /\ ~isStyle /\ (isGone \/ differs)
                        THEN IF name = "nodeValue"
                             THEN IF NodeValue(M.d, h) # Get(nextProps, name)
                                  THEN SetNodeValue(M, h, Get(nextProps, name))
                                  ELSE M
                             ELSE RemoveAttribute(M, h, DomName(name))
                   ELSE M
         IN GeminiRemoveOld(M1, h, prevProps, nextProps, Tail(names))

\* 2. add or change new properties
RECURSIVE GeminiSetNew(_, _, _, _, _)
GeminiSetNew(M, h, prevProps, nextProps, names) ==
    IF names = <<>> THEN M
    ELSE LET name == Head(names)
             isStyle == name = "style"
             isNew == name \notin DOMAIN prevProps
             isValueChanged == Get(prevProps, name) # Get(nextProps, name)
             M1 == IF isEvent(name) /\ (isNew \/ isValueChanged) THEN M
                   ELSE IF isStyle /\ (isNew \/ isValueChanged)
                        THEN SetAttribute(M, h, DomName(name), nextProps[name])
                   ELSE IF ~isEvent(name) /\ ~isStyle /\ (isNew \/ isValueChanged)
                        THEN IF name = "nodeValue"
                             THEN IF NodeValue(M.d, h) # nextProps[name]
                                  THEN SetNodeValue(M, h, nextProps[name])
                                  ELSE M
                             ELSE SetAttribute(M, h, DomName(name), nextProps[name])
                   ELSE M
         IN GeminiSetNew(M1, h, prevProps, nextProps, Tail(names))

\* 3. the className entry is written on every call, or cleared when it is gone
GeminiClassName(M, h, prevProps, nextProps) ==
    IF "className" \in DOMAIN nextProps THEN SetAttribute(M, h, "class", nextProps["className"])
    ELSE IF "className" \in DOMAIN prevProps THEN RemoveAttribute(M, h, "class")
    ELSE M

updateDomPropertiesGemini(M, h, prevProps, nextProps) ==
    LET M1 == GeminiRemoveOld(M, h, prevProps, nextProps, Keys(prevProps))
        M2 == GeminiSetNew(M1, h, prevProps, nextProps, Keys(nextProps))
    IN GeminiClassName(M2, h, prevProps, nextProps)

----------------------------------------------------------------------------
(* part_001: updateDomProperties *)

isNew(prev, next, key) == Get(prev, key) # Get(next, key)
isGone(prev, next, key) == key \notin DOMAIN next

RECURSIVE MiniClearGone(_, _, _, _, _)
MiniClearGone(M, h, prevProps, nextProps, names) ==
    IF names = <<>> THEN M
    ELSE LET name == Head(names)
             M1 == IF isProperty(name) /\ isGone(prevProps, nextProps, name)
                   THEN SetProperty(M, h, name, "")
                   ELSE M
         IN MiniClearGone(M1, h, prevProps, nextProps, Tail(names))

RECURSIVE MiniUnbind(_, _, _, _, _)
MiniUnbind(M, h, prevProps, nextProps, names) ==
    IF names = <<>> THEN M
    ELSE LET name == Head(names)
             M1 == IF isEvent(name)
                      /\ (name \notin DOMAIN nextProps \/ isNew(prevProps, nextProps, name))
                   THEN RemoveEventListener(M, h, eventType(name), prevProps[name])
                   ELSE M
         IN MiniUnbind(M1, h, prevProps, nextProps, Tail(names))

RECURSIVE MiniSetNew(_, _, _, _, _)
MiniSetNew(M, h, prevProps, nextProps, names) ==
    IF names = <<>> THEN M
    ELSE LET name == Head(names)
             M1 == IF isProperty(name) /\ isNew(prevProps, nextProps, name)
                   THEN SetProperty(M, h, name, nextProps[name])
                   ELSE M
         IN MiniSetNew(M1, h, prevProps, nextProps, Tail(names))

RECURSIVE MiniBind(_, _, _, _, _)
MiniBind(M, h, prevProps, nextProps, names) ==
    IF names = <<>> THEN M
    ELSE LET name == Head(names)
             M1 == IF isEvent(name) /\ isNew(prevProps, nextProps, name)
                   THEN AddEventListener(M, h, eventType(name), nextProps[name])
                   ELSE M
         IN MiniBind(M1, h, prevProps, nextProps, Tail(names))

updateDomPropertiesMini(M, h, prevProps, nextProps) ==
    LET M1 == MiniClearGone(M, h, prevProps, nextProps, Keys(prevProps))
        M2 == MiniUnbind(M1, h, prevProps, nextProps, Keys(prevProps))
        M3 == MiniSetNew(M2, h, prevProps, nextProps, Keys(nextProps))
    IN MiniBind(M3, h, prevProps, nextProps, Keys(nextProps))

----------------------------------------------------------------------------
(* GPT.html: updateDom *)

RECURSIVE GPTRemoveOld(_, _, _, _)
GPTRemoveOld(M, h, nextProps, names) ==
    IF names = <<>> THEN M
    ELSE LET name == Head(names)
             M1 == IF name \notin DOMAIN nextProps THEN RemoveAttribute(M, h, name) ELSE M
         IN GPTRemoveOld(M1, h, nextProps, Tail(names))

RECURSIVE GPTSetAll(_, _, _, _)
GPTSetAll(M, h, nextProps, names) ==
    IF names = <<>> THEN M
    ELSE GPTSetAll(SetAttribute(M, h, Head(names), nextProps[Head(names)]),
                   h, nextProps, Tail(names))

updateDom(M, h, prevProps, nextProps) ==
    GPTSetAll(GPTRemoveOld(M, h, nextProps, Keys(prevProps)), h, nextProps, Keys(nextProps))

----------------------------------------------------------------------------
(* Fibers *)

Fiber(type, props, d, parent, alternate, effectTag) ==
    [type |-> type, props |-> props, dom |-> d, parent |-> parent, child |-> Null,
     sibling |-> Null, alternate |-> alternate, effectTag |-> effectTag]

\* the root fiber a render call builds: { dom: container, props: { children: [element] },
\* alternate: currentRoot }
RootFiber(element, alternate) ==
    Fiber(Undefined, Props(EmptyProps, TRUE, <<element>>), Container, Null, alternate, NoTag)

\* element.type of an entry of a children array
TypeOf(element) == IF element.kind = "elem" THEN element.type ELSE Undefined

\* element.type == oldFiber.type
SameTypeAlways(oldType, newType) == TRUE
SameType(oldType, newType) == newType = oldType

\* the fiber built for a child of the same type as the old fiber at its index
UpdateFiberFresh(old, oldFiber, element, wipFiber) ==
    Fiber(old.type, element.props, Null, wipFiber, oldFiber, UPDATE)
UpdateFiber(old, oldFiber, element, wipFiber) ==
    Fiber(old.type, element.props, old.dom, wipFiber, oldFiber, UPDATE)

\* the fiber built for a child with no old fiber of its type at its index
PlacementFiber(element, wipFiber) ==
    Fiber(TypeOf(element), element.props, Null, wipFiber, Null, PLACEMENT)

\* the while loop of reconcileChildren (gemini.html, part_001); index counts from 0
RECURSIVE ReconcileLoop(_, _, _, _, _, _, _)
ReconcileLoop(M, v, wipFiber, elements, index, oldFiber, prevSibling) ==
    IF M.err # NoError \/ ~(index < Len(elements) \/ oldFiber # Null) THEN M
    ELSE LET hasElement == index < Len(elements) /\ elements[index + 1].kind # "null"
             element == elements[index + 1]
             sameType == /\ oldFiber # Null
                         /\ hasElement
                         /\ SameType(M.f[oldFiber].type, TypeOf(element))
             newFiber == IF hasElement THEN Len(M.f) + 1 ELSE Null
             M1 == IF sameType
                   THEN [M EXCEPT !.f = Append(M.f, UpdateFiber(M.f[oldFiber], oldFiber,
                                                                element, wipFiber))]
                   ELSE IF hasElement
                   THEN [M EXCEPT !.f = Append(M.f, PlacementFiber(element, wipFiber))]
                   ELSE M
             M2 == IF oldFiber # Null /\ ~sameType
                   THEN [M1 EXCEPT !.f[oldFiber].effectTag = DELETION,
                                   !.del = Append(M1.del, oldFiber)]
                   ELSE M1
             nextOld == IF oldFiber # Null THEN M2.f[oldFiber].sibling ELSE Null
             M3 == IF index = 0 THEN [M2 EXCEPT !.f[wipFiber].child = newFiber]
                   ELSE IF hasElement /\ prevSibling # Null
                   THEN [M2 EXCEPT !.f[prevSibling].sibling = newFiber]
                   ELSE IF hasElement /\ v = "mini" THEN Throw(M2, "TypeError")
                   ELSE M2
         IN ReconcileLoop(M3, v, wipFiber, elements, index + 1, nextOld, newFiber)

reconcileChildren(M, v, wipFiber, elements) ==
    LET alternate == M.f[wipFiber].alternate
        oldFiber == IF alternate # Null THEN M.f[alternate].child ELSE Null
    IN ReconcileLoop(M, v, wipFiber, elements, 0, oldFiber, Null)

\* the fiber-building loop inside performUnitOfWork of GPT.html
RECURSIVE GPTBuildLoop(_, _, _, _, _)
GPTBuildLoop(M, fiber, elements, index, prevSibling) ==
    IF ~(index < Len(elements)) THEN M
    ELSE LET element == elements[index + 1]
             newFiber == Len(M.f) + 1
             M1 == [M EXCEPT !.f = Append(M.f, Fiber(TypeOf(element), element.props, Null,
                                                     fiber, Null, NoTag))]
             M2 == IF index = 0 THEN [M1 EXCEPT !.f[fiber].child = newFiber]
                   ELSE [M1 EXCEPT !.f[prevSibling].sibling = newFiber]
         IN GPTBuildLoop(M2, fiber, elements, index + 1, newFiber)

\* createDomElement (gemini.html): null for a fiber without a type
createDomElement(M, fiber) ==
    IF M.f[fiber].type = Undefined THEN M
    ELSE LET tag == IF M.f[fiber].type = TEXT_ELEMENT THEN "#text" ELSE M.f[fiber].type
             M1 == CreateNode(M, tag)
             h == Len(M1.d)
             M2 == updateDomPropertiesGemini(M1, h, EmptyProps, M1.f[fiber].props.attrs)
         IN [M2 EXCEPT !.f[fiber].dom = h]

\* createDom (part_001)
createDomMini(M, fiber) ==
    LET tag == IF M.f[fiber].type = TEXT_ELEMENT THEN "#text" ELSE M.f[fiber].type
        M1 == CreateNode(M, tag)
        h == Len(M1.d)
        M2 == updateDomPropertiesMini(M1, h, EmptyProps, M1.f[fiber].props.attrs)
    IN [M2 EXCEPT !.f[fiber].dom = h]

\* createDom (GPT.html): an element for a string type, a text node otherwise
createDomGPT(M, fiber) ==
    LET tag == IF M.f[fiber].type # Undefined THEN M.f[fiber].type ELSE "#text"
        M1 == CreateNode(M, tag)
        h == Len(M1.d)
        M2 == updateDom(M1, h, EmptyProps, M1.f[fiber].props.attrs)
    IN [M2 EXCEPT !.f[fiber].dom = h]

\* the walk up through parent links to a fiber with a sibling
RECURSIVE ClimbToSibling(_, _)
ClimbToSibling(f, nextFiber) ==
    IF nextFiber = Null THEN Null
    ELSE IF f[nextFiber].sibling # Null THEN f[nextFiber].sibling
    ELSE ClimbToSibling(f, f[nextFiber].parent)

\* step 3 of performUnitOfWork: the next unit of work
NextUnitSiblingFirst(f, fiber) ==
    IF f[fiber].sibling # Null THEN f[fiber].sibling
    ELSE IF f[fiber].child # Null THEN f[fiber].child
    ELSE ClimbToSibling(f, f[fiber].parent)
NextUnit(f, fiber) ==
    IF f[fiber].child # Null THEN f[fiber].child ELSE ClimbToSibling(f, fiber)

\* steps 1 and 2 of performUnitOfWork
performUnitOfWorkGemini(M, fiber) ==
    reconcileChildren(IF M.f[fiber].dom = Null THEN createDomElement(M, fiber) ELSE M,
                      "gemini", fiber, PropsChildren(M.f[fiber].props))

\* updateHostComponent (part_001)
updateHostComponent(M, fiber) ==
    reconcileChildren(IF M.f[fiber].dom = Null THEN createDomMini(M, fiber) ELSE M,
                      "mini", fiber, PropsChildren(M.f[fiber].props))

performUnitOfWorkGPT(M, fiber) ==
    GPTBuildLoop(IF M.f[fiber].dom = Null THEN createDomGPT(M, fiber) ELSE M,
                 fiber, PropsChildren(M.f[fiber].props), 0, Null)

performUnitOfWork(M, v, fiber) ==
    IF v = "gemini" THEN performUnitOfWorkGemini(M, fiber)
    ELSE IF v = "mini" THEN updateHostComponent(M, fiber)
    ELSE performUnitOfWorkGPT(M, fiber)

----------------------------------------------------------------------------
(* Committer *)

\* while (domParentFiber && !domParentFiber.dom) domParentFiber = domParentFiber.parent
RECURSIVE DomParentFiber(_, _)
DomParentFiber(f, n) ==
    IF n # Null /\ f[n].dom = Null THEN DomParentFiber(f, f[n].parent) ELSE n

\* commitDeletion (gemini.html): removal guarded by contains
RECURSIVE commitDeletionGemini(_, _, _)
commitDeletionGemini(M, fiber, domParent) ==
    IF M.err # NoError THEN M
    ELSE IF M.f[fiber].dom # Null
    THEN IF Contains(M.d, domParent, M.f[fiber].dom)
         THEN RemoveChild(M, domParent, M.f[fiber].dom)
         ELSE M
    ELSE IF M.f[fiber].child # Null THEN commitDeletionGemini(M, M.f[fiber].child, domParent)
    ELSE M

\* commitDeletion (part_001): unguarded removal
RECURSIVE commitDeletionMini(_, _, _)
commitDeletionMini(M, fiber, domParent) ==
    IF M.err # NoError THEN M
    ELSE IF M.f[fiber].dom # Null THEN RemoveChild(M, domParent, M.f[fiber].dom)
    ELSE IF M.f[fiber].child # Null THEN commitDeletionMini(M, M.f[fiber].child, domParent)
    ELSE M

\* the host mutation commitWork (gemini.html) applies for one fiber
commitEffectGemini(M, fiber, fb, domParent) ==
    IF domParent = Null THEN M
    ELSE IF fb.effectTag = PLACEMENT /\ fb.dom # Null THEN AppendChild(M, domParent, fb.dom)
    ELSE IF fb.effectTag = UPDATE /\ fb.dom # Null
         THEN IF fb.alternate = Null THEN Throw(M, "TypeError")
              ELSE updateDomPropertiesGemini(M, fb.dom, M.f[fb.alternate].props.attrs,
                                             fb.props.attrs)
    ELSE IF fb.effectTag = DELETION THEN commitDeletionGemini(M, fiber, domParent)
    ELSE M

\* if (fiber.effectTag) fiber.effectTag = null
clearEffectTag(M, fiber) ==
    IF M.err = NoError /\ M.f[fiber].effectTag # NoTag
    THEN [M EXCEPT !.f[fiber].effectTag = NoTag]
    ELSE M

\* the fiber whose node is the parent in the document, and that node
DomParentOf(f, fiber) ==
    IF DomParentFiber(f, f[fiber].parent) # Null
    THEN f[DomParentFiber(f, f[fiber].parent)].dom
    ELSE Null

\* commitWork (gemini.html)
RECURSIVE commitWorkGemini(_, _)
commitChildGemini(M, fiber) == commitWorkGemini(M, M.f[fiber].child)
commitSiblingGemini(M, fiber) == commitWorkGemini(M, M.f[fiber].sibling)
commitWorkGemini(M, fiber) ==
    IF fiber = Null \/ M.err # NoError THEN M
    ELSE clearEffectTag(
             commitSiblingGemini(
                 commitChildGemini(
                     commitEffectGemini(M, fiber, M.f[fiber], DomParentOf(M.f, fiber)),
                     fiber),
                 fiber),
             fiber)

\* the host mutation commitWork (part_001) applies for one fiber
commitEffectMini(M, fiber, fb, domParent) ==
    IF fb.effectTag = PLACEMENT /\ fb.dom # Null THEN AppendChild(M, domParent, fb.dom)
    ELSE IF fb.effectTag = UPDATE /\ fb.dom # Null
         THEN updateDomPropertiesMini(M, fb.dom,
                                      IF fb.alternate # Null
                                      THEN M.f[fb.alternate].props.attrs
                                      ELSE EmptyProps,
                                      fb.props.attrs)
    ELSE IF fb.effectTag = DELETION THEN commitDeletionMini(M, fiber, domParent)
    ELSE M

\* commitWork (part_001)
RECURSIVE commitWorkMini(_, _)
commitChildMini(M, fiber) == commitWorkMini(M, M.f[fiber].child)
commitSiblingMini(M, fiber) == commitWorkMini(M, M.f[fiber].sibling)
commitWorkMini(M, fiber) ==
    IF fiber = Null \/ M.err # NoError THEN M
    ELSE IF DomParentFiber(M.f, M.f[fiber].parent) = Null THEN M
    ELSE commitSiblingMini(
             commitChildMini(
                 commitEffectMini(M, fiber, M.f[fiber], DomParentOf(M.f, fiber)),
                 fiber),
             fiber)

\* the host mutation commitWork (GPT.html) applies for one fiber
commitEffectGPT(M, fb, domParent) ==
    IF fb.dom # Null THEN AppendChild(M, domParent, fb.dom) ELSE M

\* commitWork (GPT.html): every fiber's node is appended
RECURSIVE commitWorkGPT(_, _)
commitChildGPT(M, fiber) == commitWorkGPT(M, M.f[fiber].child)
commitSiblingGPT(M, fiber) == commitWorkGPT(M, M.f[fiber].sibling)
commitWorkGPT(M, fiber) ==
    IF fiber = Null \/ M.err # NoError THEN M
    ELSE IF DomParentFiber(M.f, M.f[fiber].parent) = Null THEN Throw(M, "TypeError")
    ELSE commitSiblingGPT(
             commitChildGPT(commitEffectGPT(M, M.f[fiber], DomParentOf(M.f, fiber)), fiber),
             fiber)

commitWork(M, v, fiber) ==
    IF v = "gemini" THEN commitWorkGemini(M, fiber)
    ELSE IF v = "mini" THEN commitWorkMini(M, fiber)
    ELSE commitWorkGPT(M, fiber)

\* deletions.forEach(commitWork); the array itself is left as it is
RECURSIVE ForEachDeletion(_, _, _)
ForEachDeletion(M, v, i) ==
    IF i > Len(M.del) THEN M
    ELSE ForEachDeletion(commitWork(M, v, M.del[i]), v, i + 1)

\* commitWork(wipRoot.child); a null wipRoot makes wipRoot.child throw
commitTree(M, v, root) ==
    IF root = Null THEN Throw(M, "TypeError") ELSE commitWork(M, v, M.f[root].child)

\* commitRoot up to the promotion of wipRoot
commitRootWalk(M, v, root) ==
    commitTree(IF v = "gpt" THEN M ELSE ForEachDeletion(M, v, 1), v, root)

----------------------------------------------------------------------------
(* The state machine *)

\* the hook instances that observe the one cache key
Hooks == {1, 2}

Epoch == StaleTime + 1

NoTimer == 0 - 1
NoPromise == 0

\* no fetchData call was made in the last step
NoCall == [manual |-> FALSE, outcome |-> "none"]

\* the globals as the script declares them; deletions is null in gemini.html until the
\* first render assigns [], and nothing reads it before that
InitEngine ==
    /\ pc = "idle"
    /\ shouldYield = FALSE
    /\ loopAlive = (variant \in Cooperative)
    /\ nextUnitOfWork = Null
    /\ currentRoot = Null
    /\ wipRoot = Null
    /\ deletions = <<>>
    /\ fibers = <<>>
    /\ dom = <<DomNode("#container")>>
    /\ error = NoError
    /\ renders = 0
    /\ processed = <<>>
    /\ commitCalls = <<>>
    /\ commitLog = <<>>
    /\ domAtRender = <<DomNode("#container")>>
    /\ fibersAtRender = <<>>
    /\ lastProps = EmptyProps
    /\ builtFrom = <<>>
    /\ built = <<>>
    /\ globalWipFiber = Null
    /\ hookIndex = 0
    /\ apps = <<>>

\* the module-level cache is empty and no hook has rendered
InitQueryCache ==
    /\ now = Epoch
    /\ queryCache = <<>>
    /\ fetches = <<>>
    /\ mountedRef = [h \in Hooks |-> FALSE]
    /\ retryCountRef = [h \in Hooks |-> 0]
    /\ cleanupTimer = [h \in Hooks |-> NoTimer]
    /\ call = NoCall

\* rootReducer's default state
initialState == [count |-> 0, name |-> "initial"]

NoStoreOp == [op |-> "none", type |-> "none", handle |-> 0, called |-> <<>>]

\* createStore(rootReducer): the '@@CUSTOM_REDUX/INIT' dispatch has run, with no listener
InitStore ==
    /\ currentState = initialState
    /\ listeners = <<>>
    /\ handles = <<>>
    /\ storeLog = NoStoreOp

\* the CentralBank class as declared, before any getInstance call
InitBank ==
    /\ bankInstance = Null
    /\ banks = <<>>
    /\ bankRefs = <<>>
    /\ lastRate = 0

NoBusOp ==
    [op |-> "none", topic |-> "none", listener |-> "none", delivered |-> <<>>, threw |-> FALSE]

\* new EventBus()
InitBus ==
    /\ topics = [t \in {} |-> <<>>]
    /\ busLog = NoBusOp

InitOthers == InitStore /\ InitBank /\ InitBus

Init ==
    /\ variant \in Variants
    /\ InitEngine
    /\ library = "none"
    /\ retry = "omitted"
    /\ InitQueryCache
    /\ InitOthers

\* the same, for the programs that do not use a rendering engine
InitPlain == Init /\ variant = "gemini"

\* The heap holds the objects the program can still reach.  Overwriting wipRoot
\* drops the last reference to the fibers of a pass that was not committed (no older
\* fiber points to them), and with them the nodes they created, unless attached.
Max(S) == CHOOSE x \in S : \A y \in S : y <= x
\* (the global wipFiber of part_001 keeps the fiber it names)
ReachableFibers ==
    IF wipRoot = Null THEN fibers ELSE SubSeq(fibers, 1, Max({wipRoot - 1, globalWipFiber}))
ReachableNodes ==
    SubSeq(dom, 1, Max({Container}
                       \cup {ReachableFibers[i].dom : i \in 1..Len(ReachableFibers)}
                       \cup {h \in 1..Len(dom) : dom[h].parent # Null}))

\* render / renderFiber: a new work-in-progress root replaces the globals;
\* gemini.html then runs workLoop before it returns
StartPass(c, limit) ==
    /\ pc = "idle"
    /\ renders < limit
    /\ fibers' = Append(ReachableFibers, RootFiber(Eval(variant, c), currentRoot))
    /\ dom' = ReachableNodes
    /\ wipRoot' = Len(ReachableFibers) + 1
    /\ deletions' = <<>>
    /\ nextUnitOfWork' = Len(ReachableFibers) + 1
    /\ pc' = IF variant = "gemini" THEN "loop" ELSE "idle"
    /\ shouldYield' = FALSE
    /\ error' = NoError
    /\ renders' = renders + 1
    /\ processed' = <<>>
    /\ domAtRender' = ReachableNodes
    /\ fibersAtRender' = Append(ReachableFibers, RootFiber(Eval(variant, c), currentRoot))
    /\ UNCHANGED <<variant, loopAlive, currentRoot, commitCalls, commitLog, lastProps,
                   others>>

\* a render call of the runs with at most MaxRenders of them
Render(c) == StartPass(c, MaxRenders)

\* the host runs the registered idle callback, which tests the deadline before the
\* first unit
WorkLoopStartDeadlineFirst ==
    /\ variant \in Cooperative
    /\ pc = "idle"
    /\ loopAlive
    /\ pc' = "loop"
    /\ shouldYield' \in BOOLEAN
    /\ error' = NoError
    /\ UNCHANGED <<variant, loopAlive, nextUnitOfWork, currentRoot, wipRoot, deletions,
                   fibers, dom, renders, processed, commitCalls, commitLog,
                   domAtRender, fibersAtRender, lastProps, others>>

\* the host runs the registered idle callback
WorkLoopStart ==
    /\ variant \in Cooperative
    /\ pc = "idle"
    /\ loopAlive
    /\ pc' = "loop"
    /\ shouldYield' = FALSE
    /\ error' = NoError
    /\ UNCHANGED <<variant, loopAlive, nextUnitOfWork, currentRoot, wipRoot, deletions,
                   fibers, dom, renders, processed, commitCalls, commitLog,
                   domAtRender, fibersAtRender, lastProps, others>>

\* while (nextUnitOfWork && !shouldYield)
LoopRuns == nextUnitOfWork # Null /\ ~shouldYield

\* the globals after performUnitOfWork left the machine in state M:
\* nextUnitOfWork = performUnitOfWork(nextUnitOfWork); shouldYield = deadline.timeRemaining() < 1
UnitDoneForgetful(M) ==
    /\ fibers' = M.f
    /\ dom' = M.d
    /\ deletions' = M.del
    /\ error' = M.err
    /\ IF M.err = NoError
       THEN /\ shouldYield' \in (IF variant \in Cooperative THEN BOOLEAN ELSE {FALSE})
            /\ nextUnitOfWork' = IF shouldYield' THEN Null ELSE NextUnit(M.f, nextUnitOfWork)
            /\ UNCHANGED <<pc, loopAlive>>
       ELSE /\ pc' = "idle"
            /\ loopAlive' = FALSE
            /\ UNCHANGED <<nextUnitOfWork, shouldYield>>
UnitDone(M) ==
    /\ fibers' = M.f
    /\ dom' = M.d
    /\ deletions' = M.del
    /\ error' = M.err
    /\ IF M.err = NoError
       THEN /\ nextUnitOfWork' = NextUnit(M.f, nextUnitOfWork)
            /\ shouldYield' \in (IF variant \in Cooperative THEN BOOLEAN ELSE {FALSE})
            /\ UNCHANGED <<pc, loopAlive>>
       ELSE /\ pc' = "idle"
            /\ loopAlive' = FALSE
            /\ UNCHANGED <<nextUnitOfWork, shouldYield>>

\* one iteration of the while loop of workLoop
PerformUnit ==
    /\ pc = "loop"
    /\ LoopRuns
    /\ UnitDone(performUnitOfWork(Machine(fibers, dom, deletions, <<>>, NoError),
                                  variant, nextUnitOfWork))
    /\ processed' = Append(processed, nextUnitOfWork)
    /\ UNCHANGED <<variant, currentRoot, wipRoot, renders, commitCalls, commitLog,
                   domAtRender, fibersAtRender, lastProps, others>>

\* if (!nextUnitOfWork && wipRoot)
CanCommitAnyTime(next, root) == root # Null
CanCommit(next, root) == next = Null /\ root # Null

\* the globals after the walks of commitRoot left the machine in state M:
\* currentRoot = wipRoot; wipRoot = null, unless an exception escaped
CommitDone(M) ==
    /\ fibers' = M.f
    /\ dom' = M.d
    /\ deletions' = M.del
    /\ commitLog' = M.log
    /\ error' = M.err
    /\ IF M.err = NoError
       THEN /\ currentRoot' = wipRoot
            /\ wipRoot' = Null
            /\ UNCHANGED loopAlive
       ELSE /\ loopAlive' = FALSE
            /\ UNCHANGED <<currentRoot, wipRoot>>

\* commitRoot, called from workLoop after its while loop
CommitRoot ==
    /\ pc = "loop"
    /\ ~LoopRuns
    /\ CanCommit(nextUnitOfWork, wipRoot)
    /\ CommitDone(commitRootWalk(Machine(fibers, dom, deletions, <<>>, NoError),
                                 variant, wipRoot))
    /\ pc' = "idle"
    /\ shouldYield' = FALSE
    /\ commitCalls' = Append(commitCalls, wipRoot)
    /\ UNCHANGED <<variant, nextUnitOfWork, renders, processed, domAtRender,
                   fibersAtRender, lastProps, others>>

\* workLoop returns without committing and registers itself again
WorkLoopReturn ==
    /\ pc = "loop"
    /\ ~LoopRuns
    /\ ~CanCommit(nextUnitOfWork, wipRoot)
    /\ pc' = "idle"
    /\ shouldYield' = FALSE
    /\ UNCHANGED <<variant, loopAlive, nextUnitOfWork, currentRoot, wipRoot, deletions,
                   fibers, dom, error, renders, processed, commitCalls, commitLog,
                   domAtRender, fibersAtRender, lastProps, others>>

Next ==
    \/ \E c \in RootCalls : Render(c)
    \/ WorkLoopStart
    \/ PerformUnit
    \/ CommitRoot
    \/ WorkLoopReturn

Spec == Init /\ [][Next]_vars

\* the globals after a direct call of commitRoot left the machine in state M; an
\* exception goes back to the caller and the idle callback stays registered
CommitAgainDone(M) ==
    /\ fibers' = M.f
    /\ dom' = M.d
    /\ deletions' = M.del
    /\ commitLog' = M.log
    /\ error' = M.err
    /\ IF M.err = NoError
       THEN currentRoot' = wipRoot /\ wipRoot' = Null
       ELSE UNCHANGED <<currentRoot, wipRoot>>

\* commitRoot() called once more after a commit, with no render call in between
CommitRootAgain ==
    /\ pc = "idle"
    /\ wipRoot = Null
    /\ currentRoot # Null
    /\ error = NoError
    /\ CommitAgainDone(commitRootWalk(Machine(fibers, dom, deletions, <<>>, NoError),
                                      variant, wipRoot))
    /\ UNCHANGED <<variant, pc, shouldYield, loopAlive, nextUnitOfWork, renders,
                   processed, commitCalls, domAtRender,
                   fibersAtRender, lastProps, others>>

NextCommitTwice ==
    \/ Next
    \/ CommitRootAgain

\* the engine with commitRoot open to a second call
SpecCommitTwice == Init /\ [][NextCommitTwice]_vars

----------------------------------------------------------------------------
(* updateDomProperties / updateDom on one node, applied to props drawn from a *)
(* small universe                                                             *)

\* the props objects a fiber may carry: any of a class, an id and a click callback,
\* each with one of two values
HandleProps == UNION {[S -> {"a", "b"}] : S \in SUBSET {"className", "id", "onClick"}}

\* the node the calls work on: the first one created after the container
Handle == Container + 1

\* the attribute updater of each engine
updateHandle(M, v, h, prev, next) ==
    IF v = "gemini" THEN updateDomPropertiesGemini(M, h, prev, next)
    ELSE IF v = "mini" THEN updateDomPropertiesMini(M, h, prev, next)
    ELSE updateDom(M, h, prev, next)

\* the document, the log and the props on record after a call left the machine in M
HandleDone(M, next) ==
    /\ dom' = M.d
    /\ commitLog' = M.log
    /\ lastProps' = next
    /\ UNCHANGED <<variant, pc, shouldYield, loopAlive, nextUnitOfWork, currentRoot,
                   wipRoot, deletions, fibers, error, renders, processed, commitCalls,
                   domAtRender, fibersAtRender, others>>

\* createDom: a new element, its props applied against an empty object
CreateHandle(next) ==
    /\ Len(dom) < Handle
    /\ HandleDone(updateHandle(CreateNode(Machine(fibers, dom, deletions, <<>>, NoError), "div"),
                               variant, Handle, EmptyProps, next), next)

\* the commit of an update fiber: updateDomProperties(fiber.dom, fiber.alternate.props,
\* fiber.props)
UpdateHandle(next) ==
    /\ Len(dom) = Handle
    /\ HandleDone(updateHandle(Machine(fibers, dom, deletions, <<>>, NoError),
                               variant, Handle, lastProps, next), next)

NextProps ==
    \/ \E next \in HandleProps : CreateHandle(next)
    \/ \E next \in HandleProps : UpdateHandle(next)

\* one node taken through any sequence of props objects
SpecProps == Init /\ [][NextProps]_vars

----------------------------------------------------------------------------
(* createElement taken by itself, applied to arguments drawn from a small   *)
(* universe                                                                 *)

\* an element a call may be given as a child, built by the same createElement
InnerElement(v) == createElement(v, "p", EmptyProps, <<>>)

\* what a call may be given as a child: a raw string, null, an element, an array
ChildArgs(v) ==
    {Prim("A"), NullChild, InnerElement(v), ArrayChild(<<Prim("B"), InnerElement(v)>>)}

\* createElement(type, attrs, ...args)
Build(type, attrs, args) ==
    /\ builtFrom' = <<[type |-> type, attrs |-> attrs, args |-> args]>>
    /\ built' = <<createElement(variant, type, attrs, args)>>
    /\ UNCHANGED <<engineVars, hookVars, queryVars, storeVars, bankVars, busVars>>

NextBuilder ==
    \E attrs \in {EmptyProps, ("className" :> "c")},
       args \in SeqsUpTo(MaxKids, ChildArgs(variant)) :
        Build("div", attrs, args)

\* createElement called over and over, each call on its own
SpecBuilder == Init /\ [][NextBuilder]_vars

----------------------------------------------------------------------------
(* The useQuery hooks and their global queryCache.  One cache key, observed  *)
(* by the hook instances of Hooks; four libraries:                           *)
(*   "useQueryGPT2"   : src/custom-react-lib/.../useQuery/useQueryGPT2.ts     *)
(*   "useQueryGemini" : src/custom-react-lib/.../useQuery/useQueryGemini.ts   *)
(*   "useQuery"       : src/unnamed/part_005 (useReducer)                     *)
(*   "useQueryClaude" : src/unnamed/part_004                                  *)
(* Date.now() is the variable now; a timer is the time it is due at.  The    *)
(* data and the error of an entry are reduced to present / absent.  Code up  *)
(* to the next await runs in one step; the continuations of a settled        *)
(* promise are microtasks and run in the step that settles it.               *)

Entries == {"useQueryGPT2", "useQueryGemini", "useQuery"}

\* the second module of useQueryGemini.ts (its lines 453-1089), which exports useQuery
Module2 == "useQueryGemini.useQuery"
Libraries == Entries \cup {"useQueryClaude"}

\* the retry option as the caller wrote it: left out, true, false, or the number 1
RetryOptions(lib) ==
    IF lib = "useQueryClaude" THEN {"omitted", "one"} ELSE {"omitted", "true", "false", "one"}



Entry(d, e, ts, p, subs, gc) ==
    [data |-> d, error |-> e, timestamp |-> ts, promise |-> p, subscribers |-> subs,
     gcTimeout |-> gc]

\* one run of fetchData that got as far as calling queryFn; status is the status its
\* continuation last gave the hook with setState / dispatch ("unset" before it did),
\* callbacks the option callbacks it called, in order
NewFetch(h, manual) ==
    [hook |-> h, manual |-> manual, calls |-> 1, phase |-> "pending", failed |-> FALSE,
     reported |-> FALSE, result |-> "pending", status |-> "unset", callbacks |-> <<>>]

QueryState(c, f, r, k) ==
    [cache |-> c, fetches |-> f, retryCount |-> r, call |-> k]

\* what fetchData(isManualRefetch) came to: it joined the promise in flight, answered
\* from the cache, refused an unmounted hook, or started a fetch ("threw": invalidate
\* threw before it reached fetchData)
Returned(Q, manual, outcome) ==
    [Q EXCEPT !.call = [manual |-> manual, outcome |-> outcome]]

\* scheduleGC(cacheKey, cacheTime), cacheTime finite and positive
scheduleGC(c, t) ==
    IF c = <<>> THEN c
    ELSE <<[c[1] EXCEPT !.gcTimeout = IF c[1].subscribers = {} THEN t + CacheTime
                                        ELSE NoTimer]>>

\* notifySubscribers() / notifyObserver(true) called by hook h never returns: in
\* useQueryGPT2 the subscribers are the notifySubscribers functions themselves, in
\* part_005 and in the second module of useQueryGemini.ts each one calls every other one
Overflows(lib, c, h) ==
    /\ c # <<>>
    /\ CASE lib = "useQueryGPT2" -> c[1].subscribers # {}
         [] lib \in {"useQuery", Module2} -> /\ c[1].subscribers \ {h} # {}
                                /\ \/ h \in c[1].subscribers
                                   \/ Cardinality(c[1].subscribers \ {h}) >= 2
         [] OTHER -> FALSE

\* maxRetries of fetchWithRetry; useQueryClaude compares retryCount.current < retry
maxRetries(r) ==
    CASE r = "omitted" -> 3
      [] r = "true" -> 3
      [] r = "false" -> 0
      [] OTHER -> 1

\* whether the loop goes round again after a rejection; n is retryCountRef.current
\* before the rejection.  useQueryGemini reads optionsRef.current.retry, which is
\* undefined when the option was left out, and counts before it compares
shouldRetry(lib, r, n) ==
    IF lib = "useQueryGemini"
    THEN r = "true" \/ (r = "one" /\ n + 1 <= 1)
    ELSE n < maxRetries(r)

\* the entry is fresh for a fetchData(isManualRefetch) that started at t
Fresh(lib, c, manual, t) ==
    /\ c # <<>>
    /\ CASE lib = "useQueryClaude" -> t - c[1].timestamp < StaleTime
         [] lib = "useQueryGemini" ->
                ~c[1].error /\ t - c[1].timestamp <= StaleTime /\ ~manual
         [] OTHER ->
                c[1].data /\ ~c[1].error /\ t - c[1].timestamp <= StaleTime /\ ~manual

\* the part of fetchData after the checks: queryFn is called, the promise is stored
StartFetch(Q, lib, h, manual, t) ==
    LET id == Len(Q.fetches) + 1
        base == IF Q.cache = <<>>
                THEN Entry(FALSE, FALSE, IF lib = "useQuery" THEN 0 ELSE t, NoPromise, {},
                           NoTimer)
                ELSE Q.cache[1]
        e == [base EXCEPT !.promise = id, !.subscribers = @ \cup {h}, !.gcTimeout = NoTimer]
        Q1 == [Q EXCEPT !.fetches = Append(@, NewFetch(h, manual))]
    IN  IF lib = "useQueryClaude"
        THEN Returned(Q1, manual, "started")
        ELSE Returned([Q1 EXCEPT !.cache = <<e>>, !.retryCount[h] = 0], manual, "started")

\* fetchData(isManualRefetch) up to its first await
fetchData(Q, lib, m, h, manual, t) ==
    IF lib = "useQueryClaude"
    THEN IF Fresh(lib, Q.cache, manual, t)
         THEN Returned(Q, manual, "cached")
         ELSE StartFetch(Q, lib, h, manual, t)
    ELSE IF Q.cache # <<>> /\ Q.cache[1].promise # NoPromise
         THEN Returned(Q, manual, "joined")
         ELSE IF ~m[h]
              THEN Returned(Q, manual, "unmounted")
              ELSE IF Fresh(lib, Q.cache, manual, t)
                   THEN Returned(Q, manual, "cached")
                   ELSE StartFetch(Q, lib, h, manual, t)

\* finally { ... } of fetchData for the fetch id
Finally(lib, c, m, h, id, t) ==
    LET c1 == IF c # <<>> /\ c[1].promise = id THEN <<[c[1] EXCEPT !.promise = NoPromise]>>
              ELSE c
    IN  CASE lib = "useQuery" -> IF m[h] THEN scheduleGC(c, t) ELSE c
          [] OTHER -> scheduleGC(c1, t)

\* catch (error) { ... } of fetchData: fetchWithRetry gave up, or the success branch threw
Failure(Q, lib, m, id, t, gaveUp) ==
    LET h == Q.fetches[id].hook
        c == Q.cache
        c1 == IF c # <<>>
              THEN <<[c[1] EXCEPT !.error = TRUE, !.timestamp = t, !.promise = NoPromise]>>
              ELSE IF lib = "useQueryGemini"
                   THEN <<Entry(FALSE, TRUE, t, NoPromise, {h}, NoTimer)>>
                   ELSE c
        c2 == IF m[h] THEN c1 ELSE c
    IN  [Q EXCEPT !.cache = Finally(lib, c2, m, h, id, t),
                  !.fetches[id] = [@ EXCEPT !.phase = "done", !.failed = gaveUp,
                                            !.reported = m[h],
                                            !.status = IF m[h] THEN "error" ELSE @,
                                            !.callbacks = IF m[h]
                                                          THEN @ \o <<"onError", "onSettled">>
                                                          ELSE @,
                                            !.result = IF lib = "useQueryGemini"
                                                       THEN "resolved" ELSE "rejected"]]

\* the continuation of fetchData after fetchWithRetry resolved
Success(Q, lib, m, id, t) ==
    LET h == Q.fetches[id].hook
        c == Q.cache
        c1 == IF c # <<>>
              THEN <<[c[1] EXCEPT !.data = TRUE, !.error = FALSE, !.timestamp = t,
                                  !.promise = NoPromise]>>
              ELSE IF lib = "useQueryGemini"
                   THEN <<Entry(TRUE, FALSE, t, NoPromise, {h}, NoTimer)>>
                   ELSE c
    IN  IF ~m[h]
        THEN [Q EXCEPT !.cache = Finally(lib, c, m, h, id, t),
                       !.fetches[id] = [@ EXCEPT !.phase = "done", !.result = "resolved"]]
        ELSE IF Overflows(lib, c1, h)
             THEN Failure([Q EXCEPT !.cache = c1,
                                    !.fetches[id].status = "success",
                                    !.fetches[id].callbacks = <<"onSuccess", "onSettled">>],
                          lib, m, id, t, FALSE)
             ELSE [Q EXCEPT !.cache = Finally(lib, c1, m, h, id, t),
                            !.fetches[id] = [@ EXCEPT !.phase = "done",
                                                      !.result = "resolved",
                                                      !.status = "success",
                                                      !.callbacks =
                                                          <<"onSuccess", "onSettled">>]]

SetQuery(Q, m, t) ==
    /\ queryCache' = Q.cache
    /\ fetches' = Q.fetches
    /\ retryCountRef' = Q.retryCount
    /\ call' = Q.call
    /\ mountedRef' = m
    /\ now' = t
    /\ UNCHANGED <<library, retry, engineVars, hookVars, builderVars, storeVars, bankVars, busVars>>

\* the state a handler starts from
Here == QueryState(queryCache, fetches, retryCountRef, NoCall)

Running(f) == {id \in 1..Len(f) : f[id].phase # "done"}

\* the mount effect of hook h
Mount(h) ==
    /\ ~mountedRef[h]
    /\ LET m == [mountedRef EXCEPT ![h] = TRUE]
           base == IF queryCache = <<>>
                   THEN Entry(FALSE, FALSE, 0, NoPromise, {}, NoTimer) ELSE queryCache[1]
           e == [base EXCEPT !.subscribers = @ \cup {h}, !.gcTimeout = NoTimer]
           stale == \/ IF library = "useQueryGemini" THEN FALSE ELSE ~e.data
                    \/ e.error
                    \/ now - e.timestamp > StaleTime
       IN  IF library = "useQueryClaude"
           THEN /\ cleanupTimer' = [cleanupTimer EXCEPT ![h] = now + CacheTime]
                /\ SetQuery(fetchData(Here, library, m, h, FALSE, now), m, now)
           ELSE /\ UNCHANGED cleanupTimer
                /\ Len(fetches) < MaxFetches \/ ~stale \/ e.promise # NoPromise
                /\ SetQuery(IF stale
                            THEN fetchData([Here EXCEPT !.cache = <<e>>], library, m, h,
                                           FALSE, now)
                            ELSE [Here EXCEPT !.cache = <<e>>], m, now)
    /\ library = "useQueryClaude" => Len(fetches) < MaxFetches

\* the cleanup of the mount effect of hook h
Unmount(h) ==
    /\ mountedRef[h]
    /\ LET m == [mountedRef EXCEPT ![h] = FALSE]
           c == IF queryCache = <<>> THEN queryCache
                ELSE <<[queryCache[1] EXCEPT !.subscribers = @ \ {h}]>>
       IN  IF library = "useQueryClaude"
           THEN /\ cleanupTimer' = [cleanupTimer EXCEPT ![h] = NoTimer]
                /\ SetQuery(Here, m, now)
           ELSE /\ UNCHANGED cleanupTimer
                /\ SetQuery([Here EXCEPT !.cache = IF c # <<>> /\ c[1].subscribers = {}
                                                    THEN scheduleGC(c, now) ELSE c],
                            m, now)

\* refetch() of a mounted hook h
Refetch(h) ==
    /\ mountedRef[h]
    /\ Len(fetches) < MaxFetches
    /\ SetQuery(fetchData([Here EXCEPT !.retryCount[h] =
                               IF library = "useQueryClaude" THEN 0 ELSE @],
                          library, mountedRef, h, TRUE, now),
                mountedRef, now)
    /\ UNCHANGED cleanupTimer

\* invalidate() of a mounted hook h
Invalidate(h) ==
    /\ mountedRef[h]
    /\ library \in {"useQueryGPT2", "useQuery", Module2}
    /\ Len(fetches) < MaxFetches
    /\ LET c == IF queryCache = <<>> THEN queryCache
                ELSE <<[queryCache[1] EXCEPT !.timestamp = 0]>>
       IN  SetQuery(IF library = "useQuery" /\ Overflows(library, c, h)
                    THEN Returned([Here EXCEPT !.cache = c], TRUE, "threw")
                    ELSE fetchData([Here EXCEPT !.cache = c], library, mountedRef, h, TRUE,
                                   now),
                    mountedRef, now)
    /\ UNCHANGED cleanupTimer

\* the promise of queryFn resolves
QueryFnResolves(id) ==
    /\ id \in 1..Len(fetches)
    /\ fetches[id].phase = "pending"
    /\ LET h == fetches[id].hook
       IN  IF library = "useQueryClaude"
           THEN SetQuery([Here EXCEPT
                            !.cache = IF mountedRef[h]
                                      THEN <<Entry(TRUE, FALSE, now, NoPromise, {}, NoTimer)>>
                                      ELSE @,
                            !.fetches[id] = [@ EXCEPT
                                !.phase = "done", !.result = "resolved",
                                !.status = IF mountedRef[h] THEN "success" ELSE @,
                                !.callbacks = IF mountedRef[h] THEN Append(@, "onSuccess")
                                              ELSE @]],
                         mountedRef, now)
           ELSE SetQuery(Success(Here, library, mountedRef, id, now), mountedRef, now)
    /\ UNCHANGED cleanupTimer

\* the promise of queryFn rejects
QueryFnRejects(id) ==
    /\ id \in 1..Len(fetches)
    /\ fetches[id].phase = "pending"
    /\ LET h == fetches[id].hook
           again == shouldRetry(library, retry, retryCountRef[h])
           counted == [Here EXCEPT !.retryCount[h] =
                          IF again \/ library = "useQueryGemini" THEN @ + 1 ELSE @]
       IN  IF library = "useQueryClaude"
           THEN SetQuery(IF mountedRef[h]
                         THEN [Here EXCEPT
                                 !.retryCount[h] = IF again THEN @ + 1 ELSE @,
                                 !.fetches[id] = [@ EXCEPT
                                      !.phase = IF again THEN "delay" ELSE "done",
                                      !.failed = ~again, !.reported = TRUE,
                                      !.result = "resolved", !.status = "error",
                                      !.callbacks = Append(@, "onError")]]
                         ELSE [Here EXCEPT
                                 !.fetches[id] = [@ EXCEPT !.phase = "done", !.failed = TRUE,
                                                           !.result = "resolved"]],
                         mountedRef, now)
           ELSE SetQuery(IF again
                         THEN [counted EXCEPT !.fetches[id].phase = "delay"]
                         ELSE Failure(counted, library, mountedRef, id, now, TRUE),
                         mountedRef, now)
    /\ UNCHANGED cleanupTimer

\* the retry timer fires: the loop calls queryFn again (useQueryClaude: fetchData runs again)
RetryFires(id) ==
    /\ id \in 1..Len(fetches)
    /\ fetches[id].phase = "delay"
    /\ fetches[id].calls < MaxCalls
    /\ IF library = "useQueryClaude" /\ Fresh(library, queryCache, FALSE, now)
       THEN SetQuery(Returned([Here EXCEPT !.fetches[id].phase = "done"], FALSE, "cached"),
                     mountedRef, now)
       ELSE SetQuery([Here EXCEPT !.fetches[id].phase = "pending",
                                  !.fetches[id].calls = @ + 1,
                                  !.call = IF library = "useQueryClaude"
                                           THEN [manual |-> FALSE, outcome |-> "started"]
                                           ELSE @],
                     mountedRef, now)
    /\ UNCHANGED cleanupTimer

\* the timer set by scheduleGC fires
GCFires ==
    /\ queryCache # <<>>
    /\ queryCache[1].gcTimeout # NoTimer
    /\ now >= queryCache[1].gcTimeout
    /\ SetQuery([Here EXCEPT !.cache = IF queryCache[1].subscribers = {} THEN <<>>
                                        ELSE <<[queryCache[1] EXCEPT !.gcTimeout = NoTimer]>>],
                mountedRef, now)
    /\ UNCHANGED cleanupTimer

\* useQueryClaude: the cleanupTimer of hook h fires
CleanupFires(h) ==
    /\ cleanupTimer[h] # NoTimer
    /\ now >= cleanupTimer[h]
    /\ cleanupTimer' = [cleanupTimer EXCEPT ![h] = NoTimer]
    /\ SetQuery([Here EXCEPT !.cache = <<>>], mountedRef, now)

\* time passes
Tick ==
    /\ now < Epoch + MaxTime
    /\ SetQuery(Here, mountedRef, now + 1)
    /\ UNCHANGED cleanupTimer

InitQuery ==
    /\ variant = "gemini"
    /\ InitEngine
    /\ library \in Libraries
    /\ retry \in RetryOptions(library)
    /\ InitQueryCache
    /\ InitOthers

NextQuery ==
    \/ \E h \in Hooks : Mount(h) \/ Unmount(h) \/ Refetch(h) \/ Invalidate(h) \/ CleanupFires(h)
    \/ \E id \in 1..MaxFetches : QueryFnResolves(id) \/ QueryFnRejects(id) \/ RetryFires(id)
    \/ GCFires
    \/ Tick

SpecQuery == InitQuery /\ [][NextQuery]_vars

----------------------------------------------------------------------------
(* The hooks whose cache entries hold subscriber callbacks: the three of     *)
(* Entries and the second module of useQueryGemini.ts.  A notification is    *)
(* followed call by call; MaxStack frames stand for the engine's call stack. *)

Subscribing == Entries \cup {Module2}

\* the callbacks that the notification function of hook h calls: notifySubscribers of
\* useQueryGPT2 calls every subscriber, notifySubscribers of the second module and
\* notifyObserver of part_005 every subscriber but itself, notify of useQueryGemini none
Callees(lib, subs, h) ==
    CASE lib = "useQueryGPT2" -> subs
      [] lib \in {"useQuery", Module2} -> subs \ {h}
      [] OTHER -> {}

RECURSIVE notifySubscribers(_, _, _, _)
\* the notification function of hook h, called in frame number depth, returns
notifySubscribers(lib, subs, h, depth) ==
    /\ depth <= MaxStack
    /\ \A g \in Callees(lib, subs, h) : notifySubscribers(lib, subs, g, depth + 1)

\* the notification that hook h starts over the cache c returns; useQueryGemini runs
\* subscribers.forEach(sub => sub()) in fetchData itself
Notification(lib, c, h) ==
    \/ c = <<>>
    \/ IF lib = "useQueryGemini"
       THEN \A g \in c[1].subscribers : notifySubscribers(lib, c[1].subscribers, g, 1)
       ELSE notifySubscribers(lib, c[1].subscribers, h, 1)

InitSubscribers ==
    /\ variant = "gemini"
    /\ InitEngine
    /\ library \in Subscribing
    /\ retry \in RetryOptions(library)
    /\ InitQueryCache
    /\ InitOthers

NextSubscribers ==
    \/ \E h \in Hooks : Mount(h) \/ Unmount(h) \/ Refetch(h) \/ Invalidate(h)
    \/ \E id \in 1..MaxFetches : QueryFnResolves(id) \/ QueryFnRejects(id) \/ RetryFires(id)
    \/ GCFires
    \/ Tick

SpecSubscribers == InitSubscribers /\ [][NextSubscribers]_vars

----------------------------------------------------------------------------
(* createStore (src/custom-react-lib/src/custom-redux/ReduxTest.tsx) with    *)
(* rootReducer (lib/reducers.ts).  A listener is a function, named by a      *)
(* string; the same function may be subscribed more than once.  While it is  *)
(* called, a listener may subscribe a function or call an unsubscribe        *)
(* function that existed when the dispatch began.                            *)

ListenerFns == {"f", "g"}

StoreActions ==
    {[type |-> "INCREMENT", payload |-> "none"], [type |-> "DECREMENT", payload |-> "none"],
     [type |-> "SET_NAME", payload |-> "A"], [type |-> "OTHER", payload |-> "none"]}

rootReducer(state, action) ==
    CASE action.type = "INCREMENT" -> [state EXCEPT !.count = @ + 1]
      [] action.type = "DECREMENT" -> [state EXCEPT !.count = @ - 1]
      [] action.type = "SET_NAME" -> [state EXCEPT !.name = action.payload]
      [] OTHER -> state

\* listeners.indexOf(listener); 0 stands for -1
indexOf(ls, fn) ==
    IF \E i \in 1..Len(ls) : ls[i] = fn
    THEN CHOOSE i \in 1..Len(ls) : ls[i] = fn /\ \A j \in 1..(i - 1) : ls[j] # fn
    ELSE 0

\* listeners.splice(index, 1)
splice(ls, index) == [i \in 1..(Len(ls) - 1) |-> IF i < index THEN ls[i] ELSE ls[i + 1]]

Store(ls, hs) == [listeners |-> ls, handles |-> hs]

\* subscribe(listener): the store afterwards; the function returned is the last handle
subscribe(S, fn) ==
    Store(Append(S.listeners, fn), Append(S.handles, [fn |-> fn, called |-> FALSE]))

\* the unsubscribe function that the k-th subscribe call returned
unsubscribe(S, k) ==
    LET index == indexOf(S.listeners, S.handles[k].fn)
    IN  Store(IF index > 0 THEN splice(S.listeners, index) ELSE S.listeners,
              [S.handles EXCEPT ![k].called = TRUE])

\* what a listener does while it is called
Effects ==
    {[kind |-> "none", fn |-> "none", handle |-> 0]}
        \cup {[kind |-> "subscribe", fn |-> fn, handle |-> 0] : fn \in ListenerFns}
        \cup {[kind |-> "unsubscribe", fn |-> "none", handle |-> k] : k \in 1..MaxSubs}

Effect(S, e) ==
    CASE e.kind = "subscribe" -> subscribe(S, e.fn)
      [] e.kind = "unsubscribe" -> unsubscribe(S, e.handle)
      [] OTHER -> S

\* the state getState() returns to a listener called by dispatch: currentState was
\* assigned before the listeners are called
SeenBeforeUpdate(old, new) == old
Seen(old, new) == new

\* currentListeners.forEach(listener => listener()) from position i on
RECURSIVE Notify(_, _, _, _, _)
Notify(i, currentListeners, S, effects, state) ==
    IF i > Len(currentListeners)
    THEN [store |-> S, called |-> <<>>]
    ELSE LET rest == Notify(i + 1, currentListeners, Effect(S, effects[i]), effects, state)
         IN  [rest EXCEPT !.called = <<[fn |-> currentListeners[i], saw |-> state]>> \o @]

Subscribes(effects) == Cardinality({i \in DOMAIN effects : effects[i].kind = "subscribe"})

\* dispatch(action), the listeners doing effects[i] when called
Dispatch(action, effects) ==
    /\ action.type = "INCREMENT" => currentState.count < MaxCount
    /\ action.type = "DECREMENT" => currentState.count > 0 - MaxCount
    /\ Len(handles) + Subscribes(effects) <= MaxSubs
    /\ \A i \in DOMAIN effects : effects[i].handle <= Len(handles)
    /\ LET next == rootReducer(currentState, action)
           round == Notify(1, listeners, Store(listeners, handles), effects,
                           Seen(currentState, next))
       IN  /\ currentState' = next
           /\ listeners' = round.store.listeners
           /\ handles' = round.store.handles
           /\ storeLog' = [op |-> "dispatch", type |-> action.type, handle |-> 0,
                           called |-> round.called]
    /\ UNCHANGED <<engineVars, hookVars, builderVars, queryVars, bankVars, busVars>>

\* store.subscribe(fn) called outside a dispatch
Subscribe(fn) ==
    /\ Len(handles) < MaxSubs
    /\ LET S == subscribe(Store(listeners, handles), fn)
       IN  /\ listeners' = S.listeners
           /\ handles' = S.handles
    /\ storeLog' = [op |-> "subscribe", type |-> fn, handle |-> Len(handles) + 1,
                    called |-> <<>>]
    /\ UNCHANGED <<currentState, engineVars, hookVars, builderVars, queryVars, bankVars, busVars>>

\* the k-th unsubscribe function called outside a dispatch
Unsubscribe(k) ==
    /\ k \in 1..Len(handles)
    /\ LET S == unsubscribe(Store(listeners, handles), k)
       IN  /\ listeners' = S.listeners
           /\ handles' = S.handles
    /\ storeLog' = [op |-> "unsubscribe", type |-> handles[k].fn, handle |-> k,
                    called |-> <<>>]
    /\ UNCHANGED <<currentState, engineVars, hookVars, builderVars, queryVars, bankVars, busVars>>

NextStore ==
    \/ \E action \in StoreActions, effects \in [1..Len(listeners) -> Effects] :
           Dispatch(action, effects)
    \/ \E fn \in ListenerFns : Subscribe(fn)
    \/ \E k \in 1..MaxSubs : Unsubscribe(k)

SpecStore == InitPlain /\ [][NextStore]_vars

----------------------------------------------------------------------------
(* CentralBank (src/pattern/src/singleton/index.ts).  Objects live in banks  *)
(* and are referred to by index.  "Korea" and "KRW" stand for the default    *)
(* arguments of getInstance; rates are in hundredths of a percent.           *)

Countries == {"omitted", "Korea", "USA"}
Currencies == {"omitted", "won", "dollar"}
Rates == {150, 175}

\* a parameter with a default value
Given(arg, default) == IF arg = "omitted" THEN default ELSE arg

\* new CentralBank(country, currency)
CentralBank(country, currency) ==
    [country |-> country, currency |-> currency, interestRate |-> 0]

\* CentralBank.getInstance(country, currency): the static field and the heap afterwards
getInstanceAnew(inst, bs, country, currency) ==
    [instance |-> Len(bs) + 1,
     banks |-> Append(bs, CentralBank(Given(country, "Korea"), Given(currency, "KRW")))]
getInstance(inst, bs, country, currency) ==
    IF inst = Null
    THEN [instance |-> Len(bs) + 1,
          banks |-> Append(bs, CentralBank(Given(country, "Korea"), Given(currency, "KRW")))]
    ELSE [instance |-> inst, banks |-> bs]

\* const ref = CentralBank.getInstance(country, currency)
GetInstance(country, currency) ==
    /\ Len(bankRefs) < MaxRefs
    /\ LET got == getInstance(bankInstance, banks, country, currency)
       IN  /\ bankInstance' = got.instance
           /\ banks' = got.banks
           /\ bankRefs' = Append(bankRefs, [country |-> country, currency |-> currency,
                                            ref |-> got.instance])
    /\ UNCHANGED <<lastRate, engineVars, hookVars, builderVars, queryVars, storeVars, busVars>>

\* ref.setInterestRate(rate) through the reference the k-th call returned
SetInterestRate(k, rate) ==
    /\ k \in 1..Len(bankRefs)
    /\ banks' = [banks EXCEPT ![bankRefs[k].ref].interestRate = rate]
    /\ lastRate' = rate
    /\ UNCHANGED <<bankInstance, bankRefs, engineVars, hookVars, builderVars, queryVars, storeVars,
                   busVars>>

\* ref.getInterestRate() through the reference the k-th call returned
getInterestRate(k) == banks[bankRefs[k].ref].interestRate

NextBank ==
    \/ \E country \in Countries, currency \in Currencies : GetInstance(country, currency)
    \/ \E k \in 1..MaxRefs, rate \in Rates : SetInterestRate(k, rate)

SpecBank == InitPlain /\ [][NextBank]_vars

----------------------------------------------------------------------------
(* EventBus (src/pattern/src/pub_sub/index.ts).  topics is a plain object:   *)
(* its own properties are the arrays subscribe created, and a name it does   *)
(* not own is looked up in Object.prototype, where "constructor" is the      *)
(* function Object (length 1, no push, no forEach).  While it is called, a   *)
(* listener may return, throw, subscribe or unsubscribe.                     *)

BusTopics == {"news-alert", "urgent-notice", "constructor"}
Inherited == {"constructor"}
BusListeners == {"alice", "bob"}

\* this.topics[topic] is an array
IsArray(tp, topic) == topic \in DOMAIN tp

\* !this.topics[topic]
Missing(tp, topic) == topic \notin DOMAIN tp /\ topic \notin Inherited

\* this.topics[topic].length
LengthOf(tp, topic) == IF IsArray(tp, topic) THEN Len(tp[topic]) ELSE 1

WithTopic(tp, topic, array) ==
    [t \in DOMAIN tp \cup {topic} |-> IF t = topic THEN array ELSE tp[t]]

\* subscribe(topic, listener); "omitted" is a call without a listener
busSubscribe(tp, topic, listener) ==
    IF listener = "omitted" THEN [topics |-> tp, threw |-> TRUE]
    ELSE IF Missing(tp, topic) THEN [topics |-> WithTopic(tp, topic, <<listener>>), threw |-> FALSE]
    ELSE IF IsArray(tp, topic)
         THEN [topics |-> WithTopic(tp, topic, Append(tp[topic], listener)), threw |-> FALSE]
         ELSE [topics |-> tp, threw |-> TRUE]

\* unsubscribe(topic, listenerToRemove)
busUnsubscribe(tp, topic, listener) ==
    IF Missing(tp, topic) THEN tp
    ELSE IF IsArray(tp, topic)
         THEN WithTopic(tp, topic, SelectSeq(tp[topic], LAMBDA l : l # listener))
         ELSE tp

\* what a listener does while it is called
BusEffects ==
    {[kind |-> k, topic |-> "none", listener |-> "none"] : k \in {"return", "throw"}}
        \cup {[kind |-> k, topic |-> t, listener |-> l] :
                  k \in {"subscribe", "unsubscribe"}, t \in BusTopics \ Inherited,
                  l \in BusListeners}

BusEffect(tp, e) ==
    CASE e.kind = "subscribe" -> busSubscribe(tp, e.topic, e.listener).topics
      [] e.kind = "unsubscribe" -> busUnsubscribe(tp, e.topic, e.listener)
      [] OTHER -> tp

\* this.topics[topic].forEach(listener => { try { listener(data) } catch ... }) from i on
RECURSIVE Deliver(_, _, _, _)
Deliver(i, array, tp, effects) ==
    IF i > Len(array)
    THEN [topics |-> tp, delivered |-> <<>>]
    ELSE LET rest == Deliver(i + 1, array, BusEffect(tp, effects[i]), effects)
         IN  [rest EXCEPT !.delivered = <<array[i]>> \o @]

\* publish(topic, data)
publish(tp, topic, effects) ==
    IF Missing(tp, topic) \/ LengthOf(tp, topic) = 0
    THEN [topics |-> tp, delivered |-> <<>>, threw |-> FALSE]
    ELSE IF IsArray(tp, topic)
         THEN [threw |-> FALSE] @@ Deliver(1, tp[topic], tp, effects)
         ELSE [topics |-> tp, delivered |-> <<>>, threw |-> TRUE]

Short(tp) == \A t \in DOMAIN tp : Len(tp[t]) <= MaxListeners

BusSubscribe(topic, listener) ==
    /\ LET done == busSubscribe(topics, topic, listener)
       IN  /\ Short(done.topics)
           /\ topics' = done.topics
           /\ busLog' = [op |-> "subscribe", topic |-> topic, listener |-> listener,
                         delivered |-> <<>>, threw |-> done.threw]
    /\ UNCHANGED <<engineVars, hookVars, builderVars, queryVars, storeVars, bankVars>>

BusUnsubscribe(topic, listener) ==
    /\ topics' = busUnsubscribe(topics, topic, listener)
    /\ busLog' = [op |-> "unsubscribe", topic |-> topic, listener |-> listener,
                  delivered |-> <<>>, threw |-> FALSE]
    /\ UNCHANGED <<engineVars, hookVars, builderVars, queryVars, storeVars, bankVars>>

Publish(topic, effects) ==
    /\ LET done == publish(topics, topic, effects)
       IN  /\ Short(done.topics)
           /\ topics' = done.topics
           /\ busLog' = [op |-> "publish", topic |-> topic, listener |-> "none",
                         delivered |-> done.delivered, threw |-> done.threw]
    /\ UNCHANGED <<engineVars, hookVars, builderVars, queryVars, storeVars, bankVars>>

NextBus ==
    \/ \E topic \in BusTopics, listener \in BusListeners \cup {"omitted"} :
           BusSubscribe(topic, listener)
    \/ \E topic \in BusTopics, listener \in BusListeners : BusUnsubscribe(topic, listener)
    \/ \E topic \in BusTopics :
           \E effects \in [1..(IF IsArray(topics, topic) THEN Len(topics[topic]) ELSE 0)
                               -> BusEffects] :
               Publish(topic, effects)

SpecBus == InitPlain /\ [][NextBus]_vars

----------------------------------------------------------------------------
(* The cooperative engine of part_001 with passes that supersede one another *)

\* the page of part_001
InitMini == Init /\ variant = "mini"

\* a render call of the runs with at most MaxPasses passes started
Supersede(c) == StartPass(c, MaxPasses)

NextSupersede ==
    \/ \E c \in RootCalls : Supersede(c)
    \/ WorkLoopStart
    \/ PerformUnit
    \/ CommitRoot
    \/ WorkLoopReturn

SpecSupersede == InitMini /\ [][NextSupersede]_vars

----------------------------------------------------------------------------
(* The engine with a host that keeps running the registered idle callback *)

\* a callback that has started runs on to its return.  Inside the work loop exactly
\* one of PerformUnit, CommitRoot and WorkLoopReturn can happen and each changes the
\* state, so weak fairness of the three says that no run stays inside the loop
\* without taking a step
CallbackRuns == []<>(pc # "loop") \/ []<><<pc = "loop">>_vars

\* the host runs the idle callback whenever one is registered
HostIsFair == WF_vars(WorkLoopStart) /\ CallbackRuns

SpecLive == Init /\ [][Next]_vars /\ HostIsFair

----------------------------------------------------------------------------
(* Reading the fiber trees *)

\* the fibers linked through sibling, starting at n
RECURSIVE Chain(_, _)
Chain(f, n) == IF n = Null THEN <<>> ELSE <<n>> \o Chain(f, f[n].sibling)

\* the children of fiber n, first to last
Children(f, n) == Chain(f, f[n].child)

\* the fibers below and beside n in depth-first order, parents before children
RECURSIVE PreOrderFrom(_, _)
PreOrderFrom(f, n) ==
    IF n = Null THEN <<>>
    ELSE <<n>> \o PreOrderFrom(f, f[n].child) \o PreOrderFrom(f, f[n].sibling)

\* the tree under root in pre-order, root first
PreOrder(f, root) == <<root>> \o PreOrderFrom(f, f[root].child)

Range(s) == {s[i] : i \in 1..Len(s)}
IsPrefix(s, t) == Len(s) <= Len(t) /\ s = SubSeq(t, 1, Len(s))
NoDuplicates(s) == \A i, j \in 1..Len(s) : s[i] = s[j] => i = j

\* the position of fiber n among the children of its parent
IndexOf(f, n) == CHOOSE i \in 1..Len(Children(f, f[n].parent)) : Children(f, f[n].parent)[i] = n

\* the child descriptions of a description, wherever the builder put them
ElementKids(e) ==
    IF e.kind # "elem" THEN <<>>
    ELSE IF e.props.hasChildren THEN e.props.children ELSE e.children

\* the description a root fiber was rendered from
Rendered(f, root) == f[root].props.children[1]

\* a render phase that ran to its end and is not committed yet
PassComplete == wipRoot # Null /\ nextUnitOfWork = Null /\ error = NoError

\* the variants that have reconcileChildren
Diffing == {"gemini", "mini"}

----------------------------------------------------------------------------
(* Function components and hooks (part_001): useState, setState, createApp *)

\* fiber.type instanceof Function: Counter, and a component that uses no state
Components == {"Counter", "Notice"}
UsesState(component) == component = "Counter"

\* the actions Counter's three buttons hand to setCount
SetStateActions == {"increase", "decrease", "reset"}

\* action(hook.state), for the three functions of Counter
Apply(action, state) ==
    IF action = "increase" THEN state + 1
    ELSE IF action = "decrease" THEN (IF state > 0 THEN state - 1 ELSE 0)
    ELSE 0

\* actions.forEach(action => { hook.state = action(hook.state) })
RECURSIVE ApplyAll(_, _)
ApplyAll(queue, state) ==
    IF queue = <<>> THEN state ELSE ApplyAll(Tail(queue), Apply(Head(queue), state))

\* "" + count, for the counts the bounded runs reach
CountText(n) == <<"0", "1", "2", "3", "4", "5", "6", "7", "8", "9">>[n + 1]

\* a fiber's hooks array, empty when the fiber has none
HooksOf(f, x) == IF x # Null /\ "hooks" \in DOMAIN f[x] THEN f[x].hooks ELSE <<>>

\* wipFiber.hooks = hooks
WithHooks(M, x, hooks) == [M EXCEPT !.f[x] = ("hooks" :> hooks) @@ M.f[x]]

\* the hook useState builds: the old hook's state with its queued actions applied,
\* or the initial value when the alternate has no hook at this index
NewHook(old, index, initial) ==
    [state |-> IF index < Len(old)
               THEN ApplyAll(old[index + 1].queue, old[index + 1].state)
               ELSE initial,
     queue |-> <<>>]

\* useState(initial) called with the globals wipFiber = w and hookIndex = index
useState(M, w, index, initial) ==
    IF w = Null THEN Throw(M, "Error")
    ELSE WithHooks(M, w, Append(HooksOf(M.f, w),
                                NewHook(HooksOf(M.f, M.f[w].alternate), index, initial)))

\* what Counter returns for a count: the container with the heading (the buttons,
\* whose handlers are the setState closures, and the paragraph never change)
Counter(count) ==
    createElementMini("div", ("className" :> "container"),
                      <<createElementMini("h1", EmptyProps, <<Prim(CountText(count))>>)>>)

\* what the component without state returns
Notice == createElementMini("p", EmptyProps, <<Prim("A")>>)

\* component(), called with the globals wipFiber = w and hookIndex = index: the
\* machine it leaves and the element it returns
CallComponent(M, component, w, index) ==
    IF ~UsesState(component) THEN [m |-> M, element |-> Notice]
    ELSE LET U == useState(M, w, index, 0)
         IN [m |-> U,
             element |-> IF U.err # NoError THEN NullChild
                         ELSE Counter(U.f[w].hooks[index + 1].state)]

\* updateFunctionComponent: wipFiber = fiber; hookIndex = 0; wipFiber.hooks = [];
\* reconcileChildren(fiber, [fiber.type(fiber.props)])
updateFunctionComponent(M, fiber) ==
    reconcileChildren(CallComponent(WithHooks(M, fiber, <<>>), M.f[fiber].type, fiber, 0).m,
                      "mini", fiber,
                      <<CallComponent(WithHooks(M, fiber, <<>>), M.f[fiber].type, fiber, 0).element>>)

\* performUnitOfWork (part_001), both branches
performUnitOfWorkMini(M, fiber) ==
    IF M.f[fiber].type \in Components THEN updateFunctionComponent(M, fiber)
    ELSE updateHostComponent(M, fiber)

\* what render and createApp may be given in the runs with components
AppCalls == {Call(c, EmptyProps, <<>>) : c \in Components}

\* the globals after a call started a pass with root fiber `root` over the fibers f
PassStarted(f, root) ==
    /\ fibers' = Append(SubSeq(f, 1, Len(ReachableFibers)), root)
    /\ dom' = ReachableNodes
    /\ wipRoot' = Len(ReachableFibers) + 1
    /\ deletions' = <<>>
    /\ nextUnitOfWork' = Len(ReachableFibers) + 1
    /\ shouldYield' = FALSE
    /\ error' = NoError
    /\ processed' = <<>>
    /\ domAtRender' = ReachableNodes
    /\ fibersAtRender' = Append(SubSeq(f, 1, Len(ReachableFibers)), root)

\* createApp(component, container): component() runs at once, outside any pass
CreateAppDone(R, component) ==
    /\ apps' = Append(apps, component)
    /\ renders' = renders + 1
    /\ IF R.m.err # NoError
       THEN /\ error' = R.m.err
            /\ UNCHANGED <<fibers, dom, wipRoot, deletions, nextUnitOfWork, shouldYield,
                           processed, domAtRender, fibersAtRender, hookIndex>>
       ELSE /\ PassStarted(R.m.f, RootFiber(R.element, currentRoot))
            /\ hookIndex' = IF UsesState(component) THEN hookIndex + 1 ELSE hookIndex

CreateApp(component) ==
    /\ variant = "mini"
    /\ pc = "idle"
    /\ renders < MaxPasses
    /\ CreateAppDone(CallComponent(Machine(fibers, dom, deletions, <<>>, NoError),
                                   component, globalWipFiber, hookIndex), component)
    /\ UNCHANGED <<variant, pc, loopAlive, currentRoot, commitCalls, commitLog, lastProps,
                   globalWipFiber, builderVars, queryVars, storeVars, bankVars, busVars>>

\* the fibers of function components in the committed tree that hold a hook: the
\* handlers of the live buttons are the setState closures of the committed pass
LiveHooks ==
    IF currentRoot = Null THEN {}
    ELSE {x \in Range(PreOrder(fibers, currentRoot)) :
              fibers[x].type \in Components /\ HooksOf(fibers, x) # <<>>}

\* hook.queue.push(action)
Queued(f, x, action) ==
    [f EXCEPT ![x] = ("hooks" :> [HooksOf(f, x) EXCEPT ![1].queue = Append(@, action)]) @@ f[x]]

\* the root fiber setState builds from currentRoot
RootAgain ==
    Fiber(Undefined, fibers[currentRoot].props, fibers[currentRoot].dom, Null,
          currentRoot, NoTag)

\* setState(action) of the hook of fiber x: the action is queued and a new pass
\* replaces whatever pass is under way
SetStateKeepsPass(x, action) ==
    /\ variant = "mini"
    /\ pc = "idle"
    /\ renders < MaxPasses
    /\ x \in LiveHooks
    /\ IF wipRoot # Null
       THEN /\ fibers' = Queued(fibers, x, action)
            /\ UNCHANGED <<dom, wipRoot, deletions, nextUnitOfWork, shouldYield, error,
                           processed, domAtRender, fibersAtRender>>
       ELSE PassStarted(Queued(fibers, x, action), RootAgain)
    /\ renders' = renders + 1
    /\ UNCHANGED <<variant, pc, loopAlive, currentRoot, commitCalls, commitLog, lastProps,
                   others>>
SetState(x, action) ==
    /\ variant = "mini"
    /\ pc = "idle"
    /\ renders < MaxPasses
    /\ x \in LiveHooks
    /\ PassStarted(Queued(fibers, x, action), RootAgain)
    /\ renders' = renders + 1
    /\ UNCHANGED <<variant, pc, loopAlive, currentRoot, commitCalls, commitLog, lastProps,
                   others>>

\* one iteration of the while loop of workLoop, with function components
PerformUnitMini ==
    /\ variant = "mini"
    /\ pc = "loop"
    /\ LoopRuns
    /\ UnitDone(performUnitOfWorkMini(Machine(fibers, dom, deletions, <<>>, NoError),
                                      nextUnitOfWork))
    /\ processed' = Append(processed, nextUnitOfWork)
    /\ IF fibers[nextUnitOfWork].type \in Components
       THEN /\ globalWipFiber' = nextUnitOfWork
            /\ hookIndex' = IF UsesState(fibers[nextUnitOfWork].type) THEN 1 ELSE 0
       ELSE UNCHANGED <<globalWipFiber, hookIndex>>
    /\ UNCHANGED <<variant, currentRoot, wipRoot, renders, commitCalls, commitLog,
                   domAtRender, fibersAtRender, lastProps, apps,
                   builderVars, queryVars, storeVars, bankVars, busVars>>

NextHooks ==
    \/ \E c \in AppCalls : Supersede(c)
    \/ \E c \in Components : CreateApp(c)
    \/ \E x \in 1..Len(fibers), a \in SetStateActions : SetState(x, a)
    \/ WorkLoopStart
    \/ PerformUnitMini
    \/ CommitRoot
    \/ WorkLoopReturn

SpecHooks == InitMini /\ [][NextHooks]_vars

----------------------------------------------------------------------------
(* C1 *)

\* whether a fiber is an insert: tagged PLACEMENT where fibers carry a tag; GPT.html
\* has no tags and appends the node of every fiber, so there a fiber without a
\* predecessor counts as one
IsInsert(v, fb) == IF v = "gpt" THEN fb.alternate = Null ELSE fb.effectTag = PLACEMENT

\* the fibers fs stand one for one, in order and all the way down, for the
\* descriptions es, each of them an insert
RECURSIVE FibersMatch(_, _, _, _)
FibersMatch(v, f, fs, es) ==
    /\ Len(fs) = Len(es)
    /\ \A i \in 1..Len(fs) :
           /\ f[fs[i]].type = TypeOf(es[i])
           /\ IsInsert(v, f[fs[i]])
           /\ FibersMatch(v, f, Children(f, fs[i]), ElementKids(es[i]))

\* C1: when render(D) runs with no committed tree, the finished render phase has
\* built exactly one fiber per node of D, each an insert, in the shape and child
\* order of D.
C1FirstRenderBuildsEveryNode ==
    (PassComplete /\ currentRoot = Null)
        => FibersMatch(variant, fibers, Children(fibers, wipRoot),
                       <<Rendered(fibers, wipRoot)>>)

----------------------------------------------------------------------------
(* C2 *)

\* the old children a unit of work on fiber w is reconciled against
OldChildren(f, w) ==
    IF f[w].alternate = Null THEN <<>> ELSE Children(f, f[w].alternate)

\* index i holds an old fiber and a new child of the same kind
SameKindAt(f, old, elements, i) ==
    i <= Len(old) /\ i <= Len(elements) /\ f[old[i]].type = TypeOf(elements[i])

\* the old fibers without a new child of their kind at their index, in order
Unmatched(f, old, elements) ==
    SelectSeq(old, LAMBDA o : \E i \in 1..Len(old) :
                                  old[i] = o /\ ~SameKindAt(f, old, elements, i))

\* what one reconcileChildren call on fiber w did, read off the heap before (f, del)
\* and after (g, del2) the unit of work
ReconciledByIndex(f, del, g, del2, w) ==
    LET old == OldChildren(f, w)
        elements == PropsChildren(f[w].props)
        new == Children(g, w)
        same == {i \in 1..Len(elements) : SameKindAt(f, old, elements, i)}
    IN /\ Len(new) = Len(elements)
       /\ \A i \in 1..Len(new) :
              IF i \in same
              THEN g[new[i]].effectTag = UPDATE /\ g[new[i]].alternate = old[i]
              ELSE g[new[i]].effectTag = PLACEMENT /\ g[new[i]].alternate = Null
       /\ Cardinality({i \in 1..Len(new) : g[new[i]].effectTag = UPDATE}) = Cardinality(same)
       /\ Cardinality({i \in 1..Len(new) : g[new[i]].effectTag = PLACEMENT})
              = Len(elements) - Cardinality(same)
       /\ del2 = del \o Unmatched(f, old, elements)
       /\ Len(del2) - Len(del) = Len(old) - Cardinality(same)
       /\ NoDuplicates(del2)
       /\ \A i \in 1..Len(old) :
              i \notin same => g[old[i]].effectTag = DELETION

\* C2: reconcileChildren over an old child list of length m and a new one of length
\* n, with s indices holding the same kind on both sides, yields s updates, n - s
\* inserts and m - s deletes, each delete appended once to deletions; a kind mismatch
\* at an index gives a delete plus an insert, never an update; matching is by index.
C2ReconcileByIndex ==
    [][(variant \in Diffing /\ Len(processed') = Len(processed) + 1 /\ error' = NoError)
           => ReconciledByIndex(fibers, deletions, fibers', deletions', nextUnitOfWork)]_vars

\* a unit of work has met an old child list where one index kept its kind and another
\* changed it: an update beside an insert, and the replaced old fiber in deletions
C2Witness ==
    /\ variant \in Diffing
    /\ wipRoot # Null
    /\ \E w \in Range(processed) :
           LET old == OldChildren(fibers, w)
               new == Children(fibers, w)
           IN \E i, j \in 1..Len(new) :
                  /\ i <= Len(old) /\ j <= Len(old)
                  /\ fibers[new[i]].effectTag = UPDATE
                  /\ fibers[new[j]].effectTag = PLACEMENT
                  /\ old[j] \in Range(deletions)

----------------------------------------------------------------------------
(* C3 *)

\* whether a fiber is an update: tagged UPDATE where fibers carry a tag; in GPT.html,
\* which has no tags, a fiber that stands for an old one and keeps its node
IsUpdate(v, fb) == IF v = "gpt" THEN fb.alternate # Null ELSE fb.effectTag = UPDATE

\* the root fiber `root` was rendered from the description its predecessor was
\* rendered from
SameDescriptionAgain(f, root) ==
    /\ root # Null
    /\ f[root].alternate # Null
    /\ Rendered(f, root) = Rendered(f, f[root].alternate)

\* C3: re-rendering the identical description over a committed tree yields update
\* fibers only and an empty deletions list, and after the commit every node's
\* attributes and the structure of the document are what they were before the render.
C3IdenticalRerenderIsIdempotent ==
    /\ (PassComplete /\ currentRoot # Null /\ fibers[wipRoot].alternate = currentRoot
            /\ SameDescriptionAgain(fibers, wipRoot))
           => /\ \A x \in Range(PreOrderFrom(fibers, fibers[wipRoot].child)) :
                     IsUpdate(variant, fibers[x])
              /\ deletions = <<>>
    /\ (wipRoot = Null /\ error = NoError /\ SameDescriptionAgain(fibers, currentRoot))
           => dom = domAtRender

----------------------------------------------------------------------------
(* C4 *)

\* fiber x of the pass in progress is linked to the fiber at its own index under
\* its parent's predecessor, of the same kind, holding the same node, and carries
\* the attributes of the new child at that index
LinkedToPredecessor(f, x) ==
    LET parent == f[x].parent
        i == IndexOf(f, x)
        old == OldChildren(f, parent)
    IN /\ f[x].alternate # Null
       /\ i <= Len(old)
       /\ f[x].alternate = old[i]
       /\ f[x].type = f[old[i]].type
       /\ f[x].dom = f[old[i]].dom
       /\ f[x].props = PropsChildren(f[parent].props)[i].props

\* C4: in a pass in progress an update fiber's predecessor is the fiber at the same
\* index under its parent's predecessor, of the same kind and with the same node,
\* and the fiber carries the new attributes; an insert fiber has no predecessor,
\* and no node until its own unit of work has created one.
C4FiberLinks ==
    (variant \in Diffing /\ wipRoot # Null)
        => \A x \in Range(PreOrderFrom(fibers, fibers[wipRoot].child)) :
               /\ fibers[x].effectTag \in {UPDATE, PLACEMENT}
               /\ fibers[x].effectTag = UPDATE => LinkedToPredecessor(fibers, x)
               /\ fibers[x].effectTag = PLACEMENT
                      => /\ fibers[x].alternate = Null
                         /\ (fibers[x].dom = Null) = (x \notin Range(processed))

\* a pass in progress holds an update fiber with a node and attributes, next to an
\* insert fiber whose unit of work has not run yet
C4Witness ==
    /\ variant \in Diffing
    /\ wipRoot # Null
    /\ \E x, y \in Range(PreOrderFrom(fibers, fibers[wipRoot].child)) :
           /\ fibers[x].effectTag = UPDATE
           /\ fibers[x].dom # Null
           /\ Keys(fibers[x].props.attrs) # <<>>
           /\ fibers[y].effectTag = PLACEMENT
           /\ fibers[y].dom = Null

----------------------------------------------------------------------------
(* C5 *)

\* a step in which commitRoot was called
Committing == commitCalls' # commitCalls

\* C5: commitRoot runs only when there is no next unit and a work-in-progress root
\* is present, after the last unit of the pass and never before it; a loop that ends
\* with the pass completed commits it in that same run; and no pass is committed a
\* second time.
C5CommitOncePerPass ==
    [][/\ Committing
           => /\ nextUnitOfWork = Null
              /\ wipRoot # Null
              /\ processed = PreOrder(fibers, wipRoot)
              /\ commitCalls' = Append(commitCalls, wipRoot)
              /\ wipRoot \notin Range(commitCalls)
       /\ (pc = "loop" /\ nextUnitOfWork = Null /\ wipRoot # Null) => Committing
       /\ (Committing /\ error' = NoError) => ~CanCommit(nextUnitOfWork', wipRoot')]_vars

\* two different passes have been committed, the second over a tree of three or
\* more fibers
C5Witness ==
    /\ Len(commitCalls) = 2
    /\ commitCalls[1] # commitCalls[2]
    /\ wipRoot = Null
    /\ Len(processed) >= 3

----------------------------------------------------------------------------
(* C6 *)

\* the fiber the loop must turn to after the units in done, given the tree so far:
\* the next one in pre-order, none when all are done
NextInPreOrder(order, done) ==
    IF Len(done) < Len(order) THEN order[Len(done) + 1] ELSE Null

----------------------------------------------------------------------------
(* C7 *)

\* a step in which render was called
Rendering == renders' = renders + 1

\* C7: render leaves deletions empty and nextUnitOfWork and wipRoot on one fresh
\* root whose predecessor is the committed root; a commit that returns leaves
\* wipRoot null, nextUnitOfWork null, deletions empty and currentRoot on the root
\* it committed.
C7PassStateResets ==
    [][/\ Rendering
           => /\ deletions' = <<>>
              /\ wipRoot' # Null
              /\ nextUnitOfWork' = wipRoot'
              /\ wipRoot' \notin {currentRoot} \cup Range(commitCalls)
              /\ fibers'[wipRoot'].alternate = currentRoot
              /\ fibers'[wipRoot'].child = Null
       /\ (Committing /\ error' = NoError)
           => /\ wipRoot' = Null
              /\ nextUnitOfWork' = Null
              /\ deletions' = <<>>
              /\ currentRoot' = wipRoot]_vars

----------------------------------------------------------------------------
(* C8 *)

\* a render phase has been set up and is not committed yet
PassInFlight == wipRoot # Null \/ nextUnitOfWork # Null

\* C8: a render call made while a pass is in flight is rejected with the error
\* "pass in progress" and leaves wipRoot, nextUnitOfWork and deletions as they were
\* (the same fibers, not new ones in their place).
C8ReentrantRenderRejected ==
    [][(Rendering /\ PassInFlight)
           => /\ error' = "pass in progress"
              /\ UNCHANGED <<wipRoot, nextUnitOfWork, deletions, fibers>>]_vars

----------------------------------------------------------------------------
(* C9, C10 *)

\* the fiber of the rendered description under a root fiber
TopFiber(f, root) == f[root].child

\* the description under `root` is the one under its predecessor with only the
\* child list of the top element changed
SameTopElement(f, root) ==
    /\ f[root].alternate # Null
    /\ TypeOf(Rendered(f, root)) = TypeOf(Rendered(f, f[root].alternate))
    /\ Rendered(f, root).props.attrs = Rendered(f, f[root].alternate).props.attrs

\* the child descriptions of the top element now, and at the render before
NewKids(f, root) == ElementKids(Rendered(f, root))
OldKids(f, root) == ElementKids(Rendered(f, f[root].alternate))

\* the pass under `root` drops trailing children of the top element and keeps the
\* others as they were
DropsTrailing(f, root) ==
    /\ SameTopElement(f, root)
    /\ Len(NewKids(f, root)) < Len(OldKids(f, root))
    /\ IsPrefix(NewKids(f, root), OldKids(f, root))

\* the old fibers of the dropped children, in order
DroppedFibers(f, root) ==
    LET old == Children(f, TopFiber(f, f[root].alternate))
        kept == Len(NewKids(f, root))
    IN [i \in 1..(Len(old) - kept) |-> old[kept + i]]

\* the nodes a log detached / attached, one entry per operation
Detached(log) == SelectSeq(log, LAMBDA e : e.op = "detach")
Attached(log) == SelectSeq(log, LAMBDA e : e.op = "attach")

\* the nodes of the fibers in fs
Handles(f, fs) == {f[fs[i]].dom : i \in 1..Len(fs)}

\* C9: when a re-render drops k >= 1 trailing children of a parent and the retained
\* ones keep their kind, the pass holds one update per retained child and one
\* delete per dropped child, and the commit detaches exactly k nodes: the node of
\* each dropped child exactly once, and no other.
C9DropTrailingChildren ==
    [][(Committing /\ DropsTrailing(fibers, wipRoot))
           => /\ \A x \in Range(Children(fibers, TopFiber(fibers, wipRoot))) :
                     IsUpdate(variant, fibers[x])
              /\ deletions = DroppedFibers(fibers, wipRoot)
              /\ error' = NoError
              /\ Len(Detached(commitLog')) = Len(DroppedFibers(fibers, wipRoot))
              /\ {e.node : e \in Range(Detached(commitLog'))}
                     = Handles(fibers, DroppedFibers(fibers, wipRoot))
              /\ \A h \in Handles(fibers, DroppedFibers(fibers, wipRoot)) :
                     dom'[h].parent = Null]_vars

\* the pass under `root` appends one child to the top element and keeps the others
\* as they were
AppendsOne(f, root) ==
    /\ SameTopElement(f, root)
    /\ Len(NewKids(f, root)) = Len(OldKids(f, root)) + 1
    /\ IsPrefix(OldKids(f, root), NewKids(f, root))

\* every child description of the top element has its fiber, before and now
TopChildrenBuilt(f, root) ==
    /\ Len(Children(f, TopFiber(f, root))) = Len(NewKids(f, root))
    /\ Len(Children(f, TopFiber(f, f[root].alternate))) = Len(OldKids(f, root))

\* the fibers of the appended child and of everything below it
InsertedFibers(f, root) ==
    LET new == Children(f, TopFiber(f, root))
    IN <<new[Len(new)]>> \o PreOrderFrom(f, f[new[Len(new)]].child)

\* the fibers of the children that were there before, and of everything below them
ExistingFibers(f, root) ==
    LET new == Children(f, TopFiber(f, root))
    IN SelectSeq(PreOrderFrom(f, new[1]),
                 LAMBDA x : x \notin Range(InsertedFibers(f, root)))

\* the log entries that write, clear, bind or unbind something on a node
AttributeMutations(log) ==
    SelectSeq(log, LAMBDA e : e.op \in {"set", "clear", "bind", "unbind"})

\* C10: when a re-render appends one child to a parent, the commit attaches only
\* the nodes of the inserted subtree; the existing children keep their nodes and
\* are not attached again; and an existing child whose attributes are unchanged
\* receives no attribute mutation at all.
C10AppendTouchesOnlyTheNewChild ==
    [][(Committing /\ AppendsOne(fibers, wipRoot))
           => /\ error' = NoError
              /\ TopChildrenBuilt(fibers, wipRoot)
              /\ {e.node : e \in Range(Attached(commitLog'))}
                     = Handles(fibers, InsertedFibers(fibers, wipRoot))
              /\ \A i \in 1..Len(OldKids(fibers, wipRoot)) :
                     fibers[Children(fibers, TopFiber(fibers, wipRoot))[i]].dom
                         = fibers[Children(fibers, TopFiber(fibers, currentRoot))[i]].dom
              /\ \A e \in Range(AttributeMutations(commitLog')) :
                     e.node \notin Handles(fibers, ExistingFibers(fibers, wipRoot))]_vars

----------------------------------------------------------------------------
(* C11 *)

\* C11: a commit that is asked to detach the node of a deleted fiber which is not,
\* at that moment, a child of the resolved parent node skips that detach silently:
\* no error escapes the commit (removeChild is the one host call that fails in this
\* case, with NotFoundError) and the committed root is promoted all the same.
C11MissingChildDetachIsNoOp ==
    [][Committing
           => /\ error' # "NotFoundError"
              /\ currentRoot' = wipRoot
              /\ wipRoot' = Null]_vars

----------------------------------------------------------------------------
(* C12 *)

\* a step in which commitRoot was called again on the committed tree: no pass is
\* pending, no render call is made, and the step starts and ends between callbacks
CommittingAgain ==
    /\ pc = "idle" /\ pc' = "idle"
    /\ wipRoot = Null /\ currentRoot # Null
    /\ ~Rendering

----------------------------------------------------------------------------
(* C13 *)

\* the last pass was committed and nothing has been rendered since
Committed == wipRoot = Null /\ currentRoot # Null /\ error = NoError

\* the fibers the committer has walked: the committed tree and the deleted fibers
CommittedFibers == Range(PreOrder(fibers, currentRoot)) \cup Range(deletions)

\* C13: after a commit every fiber reachable from currentRoot and every fiber in
\* deletions carries no effect tag.
C13CommitClearsEffectTags ==
    Committed => \A x \in CommittedFibers : fibers[x].effectTag = NoTag

----------------------------------------------------------------------------
(* C14 *)

\* the nodes of the live tree: the container and what is attached below it
LiveNodes(d) == {h \in 1..Len(d) : Contains(d, Container, h)}

\* the live tree of document e is that of document d, node for node: the same
\* nodes, each with the same attributes, listeners, children and parent
LiveTreeSame(d, e) ==
    /\ LiveNodes(d) = LiveNodes(e)
    /\ \A h \in LiveNodes(d) : d[h] = e[h]

----------------------------------------------------------------------------
(* C15 *)

\* what the commit about to run does to the document while it goes through
\* deletions (GPT.html keeps no deletions), and what it does after that
DeletionPhase ==
    IF variant = "gpt" THEN <<>>
    ELSE ForEachDeletion(Machine(fibers, dom, deletions, <<>>, NoError), variant, 1).log
WalkPhase(log) == [i \in 1..(Len(log) - Len(DeletionPhase)) |-> log[Len(DeletionPhase) + i]]

\* the nodes of the deleted fibers, in the order the fibers were pushed
DeletedHandles == [i \in 1..Len(deletions) |-> fibers[deletions[i]].dom]

\* the nodes a log touches, in order
NodesOf(log) == [i \in 1..Len(log) |-> log[i].node]

\* s holds entries of t, at most once each, in the order of t
RECURSIVE IsSubsequence(_, _)
IsSubsequence(s, t) ==
    IF s = <<>> THEN TRUE
    ELSE IF t = <<>> THEN FALSE
    ELSE IF Head(s) = Head(t) THEN IsSubsequence(Tail(s), Tail(t))
    ELSE IsSubsequence(s, Tail(t))

\* the places of the fibers that own node h in the pre-order of the new tree
PlacesOf(h) ==
    {i \in 1..Len(PreOrder(fibers, wipRoot)) : fibers[PreOrder(fibers, wipRoot)[i]].dom = h}

\* the entries of a log follow the pre-order of the new tree
FollowsPreOrder(log) ==
    \A i, j \in 1..Len(log) :
        i < j => \A a \in PlacesOf(log[i].node), b \in PlacesOf(log[j].node) : a <= b

\* C15: within one commit the deletions come first and in accumulation order, and
\* nothing but detaches of the deleted fibers' nodes happens while they are processed;
\* after that no node is detached, and the attaches and attribute updates follow the
\* pre-order of the new tree, so that a fiber's node is attached before the nodes of
\* its descendants.
C15DeletionsThenPreOrderWalk ==
    [][Committing
           => /\ IsPrefix(DeletionPhase, commitLog')
              /\ \A i \in 1..Len(DeletionPhase) : DeletionPhase[i].op = "detach"
              /\ IsSubsequence(NodesOf(DeletionPhase), DeletedHandles)
              /\ Detached(WalkPhase(commitLog')) = <<>>
              /\ FollowsPreOrder(WalkPhase(commitLog'))]_vars

----------------------------------------------------------------------------
(* C16 *)

\* a step that applied the props of an update fiber to its existing node
UpdatingHandle == Len(dom) = Handle /\ Len(dom') = Handle

\* what the node shows for a plain attribute, under the name the property is
\* reflected to or under its own name; "" when it shows nothing
Shown(node, name) ==
    IF DomName(name) \in DOMAIN node.attrs THEN node.attrs[DomName(name)]
    ELSE IF name \in DOMAIN node.attrs THEN node.attrs[name]
    ELSE ""

PlainNames == {n \in Range(PropNames) : isProperty(n) /\ n # "nodeValue"}
EventNames == {n \in Range(PropNames) : isEvent(n)}

\* the log entries that write or clear attribute name
WritesOf(log, name) ==
    SelectSeq(log, LAMBDA e : e.op \in {"set", "clear"} /\ e.name \in {name, DomName(name)})

\* C16: committing an update fiber leaves the plain attributes of its node equal to
\* the new props without the children entry: an attribute present only in the old
\* props is cleared, an added or changed one is set to the new value, an unchanged
\* one is not written, no event binding becomes an attribute, and children is never
\* set or cleared as an attribute.
C16UpdateAppliesTheDiff ==
    [][UpdatingHandle
           => /\ \A n \in PlainNames : Shown(dom'[Handle], n) = Get(lastProps', n) \/
                                       (n \notin DOMAIN lastProps' /\ Shown(dom'[Handle], n) = "")
              /\ \A n \in EventNames : n \notin DOMAIN dom'[Handle].attrs
              /\ \A n \in PlainNames :
                     (n \in DOMAIN lastProps /\ n \in DOMAIN lastProps'
                          /\ lastProps[n] = lastProps'[n])
                         => WritesOf(commitLog', n) = <<>>
              /\ WritesOf(commitLog', "children") = <<>>]_vars

----------------------------------------------------------------------------
(* C17 *)

\* the callbacks the props object binds, as the listeners they should be
Bindings(props) == {<<eventType(n), props[n]>> : n \in EventNames \cap DOMAIN props}

\* C17: after any sequence of commits the node has registered, for each event name,
\* exactly the callback of the props committed last, and none when the binding
\* was removed: no binding is missing, none is stale.
C17ListenersFollowTheProps ==
    Len(dom) = Handle => dom[Handle].listeners = Bindings(lastProps)

----------------------------------------------------------------------------
(* C18 *)

\* the fibers of the committed tree
CommittedTree == Range(PreOrder(fibers, currentRoot))

\* C18: the render phase (the render call, every unit of work and its
\* reconciliation) reads the committed tree only: no step other than a commit
\* changes currentRoot or any field of a fiber reachable from it.
C18RenderPhaseReadsCommittedTree ==
    [][(currentRoot # Null /\ ~Committing)
           => /\ currentRoot' = currentRoot
              /\ \A x \in CommittedTree : x <= Len(fibers') /\ fibers'[x] = fibers[x]]_vars

----------------------------------------------------------------------------
(* C19 *)

\* the pass run in one go: performUnitOfWork applied from fiber next until there is
\* no next unit (or a unit throws), with the fibers handed to it in order
RECURSIVE RunToCompletion(_, _, _, _)
RunToCompletion(M, v, next, seq) ==
    IF next = Null \/ M.err # NoError THEN [m |-> M, seq |-> seq]
    ELSE RunToCompletion(performUnitOfWork(M, v, next), v,
                         NextUnit(performUnitOfWork(M, v, next).f, next),
                         Append(seq, next))

\* the root of the pass the last render call started
RootAtRender == Len(fibersAtRender)

\* the last render call's pass, run without a yield from the state render left
FullPass ==
    RunToCompletion(Machine(fibersAtRender, domAtRender, <<>>, <<>>, NoError),
                    variant, RootAtRender, <<>>)

\* a pass is under way and neither a unit nor a commit has failed
InFlight == wipRoot # Null /\ error = NoError

\* the state of a pass under way is a state of the run F without yields
AgreesInFlight(F) ==
    /\ wipRoot = RootAtRender
    /\ IsPrefix(processed, F.seq)
    /\ IF nextUnitOfWork = Null
       THEN processed = F.seq /\ fibers = F.m.f /\ dom = F.m.d /\ deletions = F.m.del
       ELSE Len(processed) < Len(F.seq) /\ nextUnitOfWork = F.seq[Len(processed) + 1]

\* the committed state is the one the commit of the run without yields produces
AgreesCommitted(F, C) ==
    /\ processed = F.seq
    /\ currentRoot = RootAtRender
    /\ fibers = C.f
    /\ dom = C.d
    /\ deletions = C.del

----------------------------------------------------------------------------
(* C20 *)

\* the fibers built since the last render call, and those with its root
WipFibers == IF wipRoot = Null THEN {} ELSE (wipRoot + 1)..Len(fibers)
WipTree == IF wipRoot = Null THEN {} ELSE wipRoot..Len(fibers)

\* how often fiber x occurs among the children of fiber p
Occurrences(f, p, x) == Len(SelectSeq(Children(f, p), LAMBDA y : y = x))

\* the entries of the children array of fiber x that describe something
NewChildren(f, x) == SelectSeq(PropsChildren(f[x].props), LAMBDA e : e.kind # "null")

\* the chain of fiber x holds one fiber per new child, in child order
ChainMatchesChildren(f, x) ==
    /\ Len(Children(f, x)) = Len(NewChildren(f, x))
    /\ \A i \in 1..Len(Children(f, x)) :
           i <= Len(NewChildren(f, x))
               => /\ f[Children(f, x)[i]].type = TypeOf(NewChildren(f, x)[i])
                  /\ f[Children(f, x)[i]].props = NewChildren(f, x)[i].props

\* C20: in every reachable state each fiber of the work-in-progress tree other than
\* the root has one parent in that tree and occurs exactly once among that parent's
\* children and among no other fiber's; the children of every fiber that has been
\* through its unit of work are one fiber per new child, in child order; and the
\* child and sibling links never lead back to a fiber already visited.
C20OneParentOneChainNoCycle ==
    /\ \A x \in WipFibers :
           /\ fibers[x].parent \in WipTree
           /\ \A p \in WipTree :
                  Occurrences(fibers, p, x) = (IF p = fibers[x].parent THEN 1 ELSE 0)
    /\ \A x \in WipTree \cap Range(processed) : ChainMatchesChildren(fibers, x)
    /\ wipRoot # Null => NoDuplicates(PreOrder(fibers, wipRoot))

----------------------------------------------------------------------------
(* C21 *)

\* the text-kind node for a raw value: its stringified value, no children
TextNodeFor(child) == Props(("nodeValue" :> String(child)), TRUE, <<>>)

\* entry e of a children array stands for child argument c
StandsFor(e, c) ==
    IF c.kind = "elem" THEN e = c
    ELSE /\ e.kind = "elem"
         /\ e.type = TEXT_ELEMENT
         /\ e.props = TextNodeFor(c)

\* C21: createElement(kind, attributes, ...children) returns a description node of
\* that kind with those attributes, whose props always hold a children entry: the
\* children given, flattened one level and in order, each raw value replaced by a
\* text node with the stringified value and no children, each description node kept
\* as it is.
C21CreateElementWrapsAndFlattens ==
    \A i \in 1..Len(built) :
        /\ built[i].type = builtFrom[i].type
        /\ built[i].props.attrs = builtFrom[i].attrs
        /\ built[i].props.hasChildren
        /\ Len(built[i].props.children) = Len(Flat(builtFrom[i].args))
        /\ \A k \in 1..Len(built[i].props.children) :
               k <= Len(Flat(builtFrom[i].args))
                   => StandsFor(built[i].props.children[k], Flat(builtFrom[i].args)[k])

----------------------------------------------------------------------------
(* C22 *)

\* the libraries that keep the promise of the fetch in flight in the cache entry
Deduplicating == library \in Entries

\* the fetches of the cache key that have called queryFn and have not settled
InFlightFetches == Running(fetches)

\* C22: while a fetch for the cache key is in flight, every fetchData call for the key
\* (any hook instance, manual or automatic) joins the promise in flight and calls no
\* queryFn, so at most one fetch chain of the key runs at any time.
C22OneFetchChainPerKey ==
    [][Deduplicating =>
         /\ Cardinality(Running(fetches')) <= 1
         /\ (InFlightFetches # {} /\ call'.outcome # "none") =>
                (call'.outcome = "joined" /\ Len(fetches') = Len(fetches))]_vars

----------------------------------------------------------------------------
(* C23 *)

\* the number of retries the retry option stands for: the number itself, 3 when it is
\* true or left out, 0 when it is false
RetriesAskedFor ==
    CASE retry = "false" -> 0
      [] retry = "one" -> 1
      [] OTHER -> 3

\* fetchWithRetry gave up in this step: the fetch id ends with every queryFn call rejected
GivesUp(id) == id <= Len(fetches) /\ ~fetches[id].failed /\ fetches'[id].failed

\* C23: a fetch whose queryFn always rejects calls queryFn exactly maxRetries + 1 times
\* and then reports the error (status 'error' in a mounted hook, the returned promise
\* rejected), where maxRetries is the numeric retry option, 3 when retry is true or left
\* out and 0 when it is false; the retry loop stops.
C23RetriesThenReportsTheError ==
    [][\A id \in 1..Len(fetches') :
          /\ fetches'[id].calls <= RetriesAskedFor + 1
          /\ GivesUp(id) =>
                 /\ fetches'[id].calls = RetriesAskedFor + 1
                 /\ fetches'[id].result = "rejected"
                 /\ mountedRef[fetches[id].hook] => fetches'[id].reported]_vars

----------------------------------------------------------------------------
(* C24 *)

\* the entry holds data and no error, and the data is at most staleTime old
FreshEntry ==
    /\ queryCache # <<>>
    /\ queryCache[1].data
    /\ ~queryCache[1].error
    /\ now - queryCache[1].timestamp <= StaleTime

\* the step called queryFn for a new fetch
InvokesQueryFn == Len(fetches') = Len(fetches) + 1

\* C24: a fetchData call that is not manual calls no queryFn when the entry has data, no
\* error and an age of at most staleTime, and answers with the cached data; a manual
\* refetch or invalidate calls queryFn whatever the freshness, unless a fetch is in flight.
C24FreshAnswersManualFetches ==
    [][/\ (call'.outcome # "none" /\ ~call'.manual /\ FreshEntry) =>
              (~InvokesQueryFn /\ call'.outcome \in {"cached", "joined"})
       /\ (call'.outcome # "none" /\ call'.manual /\ Running(fetches) = {}) =>
              (InvokesQueryFn /\ call'.outcome = "started")]_vars

----------------------------------------------------------------------------
(* C25 *)

\* the hook instances mounted on the cache key
MountedHooks == {h \in Hooks : mountedRef[h]}

\* the times at which a timer that removes the entry is due
RemovalTimers(cache, timers) ==
    ({cache[i].gcTimeout : i \in 1..Len(cache)} \cup {timers[h] : h \in Hooks}) \ {NoTimer}

\* C25: garbage collection removes the cache entry only if no hook subscribes to it when
\* the timer fires, so the entry is never removed while a hook is mounted on it; mounting
\* a hook cancels a pending removal timer; when the last subscriber unmounts, the entry is
\* due for removal cacheTime later.
C25OnlyUnobservedEntriesAreCollected ==
    [][/\ (queryCache # <<>> /\ queryCache' = <<>>) => MountedHooks = {}
       /\ (\E h \in Hooks : ~mountedRef[h] /\ mountedRef'[h]) =>
              RemovalTimers(queryCache', cleanupTimer') = {}
       /\ (\E h \in Hooks : MountedHooks = {h} /\ ~mountedRef'[h] /\ queryCache # <<>>) =>
              RemovalTimers(queryCache', cleanupTimer') = {now + CacheTime}]_vars

----------------------------------------------------------------------------
(* C26 *)

\* the step is a dispatch of the action a
Dispatches(a) ==
    /\ storeLog'.op = "dispatch"
    /\ storeLog'.type = a.type
    /\ <<currentState, listeners, handles, storeLog>>
           # <<currentState', listeners', handles', storeLog'>>

\* C26: dispatch(action) replaces the state with reducer(state, action) and then calls
\* every listener that was subscribed when the dispatch began exactly once, in
\* subscription order, with getState() returning the new state; a listener subscribed or
\* unsubscribed by another listener during the round does not change who is called in it.
C26DispatchNotifiesTheSnapshot ==
    [][\A a \in StoreActions : Dispatches(a) =>
          /\ currentState' = rootReducer(currentState, a)
          /\ storeLog'.called =
                 [i \in 1..Len(listeners) |-> [fn |-> listeners[i], saw |-> currentState']]]_vars

\* a dispatch called two listeners and left a different number of listeners subscribed
C26Witness ==
    /\ storeLog.op = "dispatch"
    /\ Len(storeLog.called) = 2
    /\ Len(listeners) # 2
    /\ currentState # initialState

----------------------------------------------------------------------------
(* C27 *)

\* the subscriptions whose unsubscribe function was never called, in subscription order
RECURSIVE StillSubscribed(_)
StillSubscribed(hs) ==
    IF hs = <<>> THEN <<>>
    ELSE IF hs[1].called THEN StillSubscribed(Tail(hs))
         ELSE <<hs[1].fn>> \o StillSubscribed(Tail(hs))

\* C27: the function returned by subscribe(listener) removes that subscription, and
\* calling it again is a no-op that removes no other subscription, not even a second
\* subscription of the same listener function: the subscribed listeners are always those
\* whose unsubscribe function has not been called.
C27UnsubscribeRemovesItsOwnSubscription ==
    listeners = StillSubscribed(handles)

----------------------------------------------------------------------------
(* C28 *)

\* C28: for every sequence of CentralBank.getInstance calls with any arguments, all calls
\* return the same instance, the constructor runs exactly once, the country and the
\* currency are those of the first call (later arguments are ignored), and an interest
\* rate set through any returned reference is the one read through every other.
C28OneCentralBank ==
    bankRefs # <<>> =>
        /\ Len(banks) = 1
        /\ \A k \in 1..Len(bankRefs) :
               /\ bankRefs[k].ref = bankRefs[1].ref
               /\ getInterestRate(k) = lastRate
        /\ banks[bankRefs[1].ref].country = Given(bankRefs[1].country, "Korea")
        /\ banks[bankRefs[1].ref].currency = Given(bankRefs[1].currency, "KRW")

\* a second call with other arguments was made and a rate was set through its reference
C28Witness ==
    /\ Len(bankRefs) >= 2
    /\ bankRefs[1].country = "Korea" /\ bankRefs[2].country = "USA"
    /\ bankRefs[2].currency = "dollar"
    /\ lastRate = 175

----------------------------------------------------------------------------
(* C29 *)

\* the listeners subscribed to a topic, in subscription order
SubscribedTo(topic) == IF topic \in DOMAIN topics THEN topics[topic] ELSE <<>>

\* C29: publish(topic, data) calls every listener subscribed to the topic once per
\* subscription, in subscription order, and no listener of another topic; a listener
\* that throws does not stop the delivery and publish does not throw; publishing to a
\* topic without subscribers calls nothing; subscribe without a listener throws and
\* leaves the topics unchanged.
C29PublishDeliversToTheTopic ==
    [][/\ \A topic \in BusTopics :
              (busLog'.op = "publish" /\ busLog'.topic = topic) =>
                  (busLog'.delivered = SubscribedTo(topic) /\ ~busLog'.threw)
       /\ (busLog'.op = "subscribe" /\ busLog'.listener = "omitted") =>
              (busLog'.threw /\ topics' = topics)]_vars

----------------------------------------------------------------------------
(* C30 *)

\* the nodes of the child fibers of fiber x, in description order
ChildHandles(f, x) == [i \in 1..Len(Children(f, x)) |-> f[Children(f, x)[i]].dom]

\* C30: after every commit, for every node of the description tree rendered last, the
\* ordered children of its live node are exactly the handles of its child fibers, in
\* description order; also after a re-render that replaces the kind of a child at a
\* non-final index while the later siblings are kept.
C30LiveChildrenFollowTheDescription ==
    Committed =>
        \A x \in CommittedTree : dom[fibers[x].dom].kids = ChildHandles(fibers, x)

----------------------------------------------------------------------------
(* C31 *)

\* the committed tree the last render call found
TreeAtRender ==
    IF fibersAtRender = <<>> \/ fibersAtRender[RootAtRender].alternate = Null THEN {}
    ELSE Range(PreOrder(fibersAtRender, fibersAtRender[RootAtRender].alternate))

\* the fibers the last render call found, as the last commit left them: a committed
\* fiber carries the tag of the pass that built it (part_001 never clears a tag)
AsCommitted ==
    [i \in 1..Len(fibersAtRender) |->
        IF i \in TreeAtRender /\ fibersAtRender[i].effectTag = DELETION
        THEN [fibersAtRender[i] EXCEPT
                 !.effectTag = IF fibersAtRender[i].alternate # Null THEN UPDATE
                               ELSE PLACEMENT]
        ELSE fibersAtRender[i]]

\* the last description rendered directly against the committed root, without a yield
DirectPass ==
    RunToCompletion(Machine(AsCommitted, domAtRender, <<>>, <<>>, NoError),
                    variant, RootAtRender, <<>>)

\* the fibers of the committed tree that were matched as updates
Retained == {x \in CommittedTree : x # currentRoot /\ fibers[x].alternate # Null}

\* the committed state is the one the commit D of the direct pass produces
SameAsDirect(D) ==
    /\ D.err = NoError
    /\ LiveTreeSame(dom, D.d)
    /\ \A x \in CommittedTree : fibers[x] = D.f[x]

\* C31: in part_001, when a render call supersedes a pass that has yielded part-way,
\* the interrupted pass is never committed and leaves no residue: the next commit
\* gives the committed tree and the live tree of the new description rendered directly
\* against the committed root, and the node of every fiber the new tree retains
\* (matched as update) is still attached.
C31SupersededPassLeavesNoResidue ==
    (variant = "mini" /\ Committed /\ renders > 0)
        => /\ commitCalls[Len(commitCalls)] = RootAtRender
           /\ SameAsDirect(commitRootWalk(DirectPass.m, variant, RootAtRender))
           /\ \A x \in Retained : Contains(dom, Container, fibers[x].dom)

----------------------------------------------------------------------------
(* C32 *)

\* the step is one unit of work
UnitStep == Len(processed') = Len(processed) + 1

\* the work loop returns to the host with work pending
YieldStep == pc = "loop" /\ pc' = "idle" /\ wipRoot # Null /\ nextUnitOfWork # Null

\* an invocation of the work loop yields only on the deadline test that follows a
\* unit it has performed itself
YieldsAfterAUnit ==
    [][/\ (variant \in Cooperative /\ pc = "idle" /\ pc' = "loop") => ~shouldYield'
       /\ (variant \in Cooperative /\ ~shouldYield /\ shouldYield') => UnitStep
       /\ (variant \in Cooperative /\ YieldStep /\ error' = NoError) => shouldYield]_vars

\* the pass that render call n started is committed, unless a later call replaces it
PassIsCommitted(n) == (wipRoot # Null /\ renders = n) ~> (wipRoot = Null \/ renders > n)

\* the host keeps invoking the idle callback
HostKeepsInvoking == []<>(pc = "loop")

\* C32: in the cooperative variants every work-loop invocation that finds pending
\* work performs at least one unit before it yields (the deadline is tested after the
\* unit), so if the host keeps invoking the idle callback and no new render is
\* started, every started pass is eventually committed.
C32EveryStartedPassIsCommitted ==
    /\ YieldsAfterAUnit
    /\ (variant \in Cooperative /\ HostKeepsInvoking)
           => \A n \in 1..MaxRenders : PassIsCommitted(n)

\* a pass has yielded with work pending after at least one unit
C32Witness ==
    /\ variant \in Cooperative
    /\ pc = "idle" /\ loopAlive
    /\ wipRoot # Null /\ nextUnitOfWork # Null
    /\ processed # <<>>

\* C32 without its condition on the host: every started pass is committed or replaced
C32EveryPassCommitsRegardless ==
    variant \in Cooperative => \A n \in 1..MaxRenders : PassIsCommitted(n)

----------------------------------------------------------------------------
(* C33 *)

\* the step is a call of createApp
CreateAppStep == Len(apps') = Len(apps) + 1

\* what the component createApp was called with can return
Outputs(component) ==
    IF UsesState(component) THEN {Counter(n) : n \in 0..MaxPasses} ELSE {Notice}

\* createApp has started a pass for the component
StartsThePass(component) ==
    /\ error' = NoError
    /\ wipRoot' # Null
    /\ fibers'[wipRoot'].dom = Container
    /\ Len(fibers'[wipRoot'].props.children) = 1
    /\ fibers'[wipRoot'].props.children[1] \in Outputs(component)
    /\ deletions' = <<>>
    /\ nextUnitOfWork' = wipRoot'

\* C33: createApp(component, container) starts the initial render pass for any
\* component, also one that calls useState: it returns without error with wipRoot a
\* root fiber on the container whose only child element is the component's output,
\* deletions empty and nextUnitOfWork equal to wipRoot; useState raises its error
\* only when it is called while no function-component fiber is being rendered.
C33CreateAppStartsThePass ==
    [][/\ CreateAppStep => StartsThePass(apps'[Len(apps')])
       /\ (error' = "Error" /\ ~CreateAppStep) => error = "Error"]_vars

\* createApp is called with a component that calls useState
C33Witness == apps # <<>> /\ UsesState(apps[Len(apps)])

----------------------------------------------------------------------------
(* C34 *)

\* the fibers of function components with state in the committed tree and in the
\* pass under way
StatefulFibers ==
    {x \in (IF currentRoot = Null THEN {} ELSE CommittedTree) \cup WipFibers :
         UsesState(fibers[x].type) /\ HooksOf(fibers, x) # <<>>}

\* the hook of the committed predecessor of fiber x, if it has one
OldHooks(x) == HooksOf(fibers, fibers[x].alternate)

\* C34: for a function component rendered as a fiber, the state useState returns in a
\* pass is the state of the committed predecessor's hook at the same index with every
\* action setState queued on that hook applied once, in call order (the initial value
\* when there is no predecessor): no queued action is lost or applied twice in the
\* committed state, also when setState is called several times before the next pass
\* or while a pass is in flight.
C34StateIsPredecessorPlusQueue ==
    \A x \in StatefulFibers :
        fibers[x].hooks[1].state =
            IF OldHooks(x) = <<>> THEN 0
            ELSE ApplyAll(OldHooks(x)[1].queue, OldHooks(x)[1].state)

\* a pass is committed whose state comes from two actions queued on the predecessor
C34Witness ==
    /\ Committed
    /\ \E x \in StatefulFibers :
          /\ x \in CommittedTree
          /\ Len(OldHooks(x)) > 0
          /\ Len(OldHooks(x)[1].queue) = 2
          /\ fibers[x].hooks[1].state = 2

----------------------------------------------------------------------------
(* C35: when queryFn resolves while the hook that started the fetch is       *)
(* mounted, the fetch promise resolves, the hook is left with status         *)
(* 'success', onSuccess and onSettled have been called once each and onError *)
(* not at all, and the cache entry holds the data, no error and no promise.  *)

\* the promise of queryFn resolves for the fetch id of a mounted hook
ResolvesMounted(id) ==
    /\ id \in 1..Len(fetches)
    /\ fetches[id].phase = "pending"
    /\ mountedRef[fetches[id].hook]
    /\ fetches'[id].phase = "done"
    /\ ~fetches'[id].failed

SettledWithSuccess(id) ==
    /\ fetches'[id].result = "resolved"
    /\ fetches'[id].status = "success"
    /\ fetches'[id].callbacks = <<"onSuccess", "onSettled">>
    /\ queryCache' # <<>>
    /\ queryCache'[1].data
    /\ ~queryCache'[1].error
    /\ queryCache'[1].promise = NoPromise

C35ResolvedFetchSettlesWithSuccess ==
    [][\A id \in 1..MaxFetches : ResolvesMounted(id) => SettledWithSuccess(id)]_vars

----------------------------------------------------------------------------
(* C36: a notification of the subscribers of a cache entry returns, however  *)
(* many hooks subscribe to the key: the one a mounted hook starts when its   *)
(* fetch settles, and the one it starts when it mounts on a fresh entry.     *)

\* hook h starts a notification in this step
Notifies(h) ==
    \/ /\ mountedRef[h]
       /\ \E id \in 1..Len(fetches) :
              fetches[id].hook = h /\ fetches[id].phase # "done" /\ fetches'[id].phase = "done"
    \/ ~mountedRef[h] /\ mountedRef'[h] /\ call' = NoCall

C36NotificationTerminates ==
    [][\A h \in Hooks : Notifies(h) => Notification(library, queryCache', h)]_vars

====
